---- MODULE Spec2Model ----
(***************************************************************************)
(* libgitdit: issues as trees of messages in a commit graph, their head    *)
(* and leaf references, the message traversal and the garbage collector    *)
(* (CollectableRefs).  The object database, the reference store and the    *)
(* traversal are the in-memory implementations of the crate (TestOdb,      *)
(* TestStore, TestTraversal); for_issue runs on a git2 revision walk.      *)
(***************************************************************************)
EXTENDS Integers, Sequences, FiniteSets, TLC

VARIABLES
    objects,     \* TestOdb.objects: oid -> object (commit with parents, or tree)
    id_counter,  \* TestOdb.id_counter: the last oid handed out
    refs,        \* TestStore.refs: reference name (path components) -> target
    pc,          \* position of the caller: idle, walking an iterator, done, failed
    req,         \* the operation in progress and the CollectableRefs configuration
    trav,        \* the TestTraversal under construction or being pulled from
    candidates,  \* leaves(): target oid -> leaf references still to be found
    stash,       \* leaves(): the dead leaves, delivered first
    seeds,       \* the ids given to with_heads when the traversal was set up
    out          \* the items delivered to the caller so far

repoVars == <<objects, id_counter, refs>>
gcVars == <<pc, req, trav, candidates, stash, seeds, out>>
vars == <<objects, id_counter, refs, pc, req, trav, candidates, stash, seeds, out>>

(***************************************************************************)
(* Bounds of the model.                                                    *)
(***************************************************************************)
\* number of objects the object database may hold
MaxOid == 3
\* number of references the reference store may hold
MaxRefs == 3
\* number of ids given to a traversal builder as heads
MaxSeeds == 2
\* number of components that follow the prefix of a path given to parts()
MaxSuffix == 3
\* the most references a caller watches
MaxWatch == 2
\* number of bytes of an object id (20 in TestOid)
OidBytes == 1

Oids == 1 .. MaxOid
\* Option<Oid>::None: the target of a symbolic reference
NoOid == 0

(***************************************************************************)
(* Object ids and their string form                                        *)
(***************************************************************************)
\* An id is the number its bytes denote, the first byte the most significant.
HexLower == "0123456789abcdef"
HexUpper == "0123456789ABCDEF"

\* the character of a string at a position, as a string
Char(s, k) == SubSeq(s, k, k)

\* the digit "{:x}" writes for a value below 16
HexDigit(d) == Char(HexLower, d + 1)

\* Display for TestOid: two lowercase hexadecimal digits for every byte
RECURSIVE FmtBytes(_, _)
FmtBytes(id, n) ==
    IF n = 0 THEN ""
    ELSE FmtBytes(id \div 256, n - 1)
            \o HexDigit((id % 256) \div 16) \o HexDigit(id % 16)

Fmt(id) == FmtBytes(id, OidBytes)

\* char::to_digit(16): the value of a hexadecimal digit of either case,
\* -1 for any other character
ToDigit(c) ==
    IF \E d \in 1 .. 16 : Char(HexLower, d) = c \/ Char(HexUpper, d) = c
    THEN (CHOOSE d \in 1 .. 16 : Char(HexLower, d) = c \/ Char(HexUpper, d) = c) - 1
    ELSE -1

\* u8::from_str_radix(part, 16) of a part of two characters: a leading "+" is
\* a sign, every other character has to be a digit; -1 for Err
FromStrRadix(part) ==
    IF Char(part, 1) = "+" THEN ToDigit(Char(part, 2))
    ELSE IF ToDigit(Char(part, 1)) = -1 \/ ToDigit(Char(part, 2)) = -1 THEN -1
    ELSE 16 * ToDigit(Char(part, 1)) + ToDigit(Char(part, 2))

ParseOk(id) == [status |-> "ok", id |-> id]
ParseErr == [status |-> "err", id |-> NoOid]
\* str::split_at beyond the end of the string panics
ParsePanic == [status |-> "panic", id |-> NoOid]

\* the loop of FromStr for TestOid: s the rest of the string, i the number of
\* bytes read, acc their value
RECURSIVE FromStrLoop(_, _, _)
FromStrLoop(s, i, acc) ==
    IF i = OidBytes THEN ParseOk(acc)
    ELSE IF Len(s) < 2 THEN ParsePanic
    ELSE LET byte == FromStrRadix(SubSeq(s, 1, 2)) IN
         IF byte = -1 THEN ParseErr
         ELSE FromStrLoop(SubSeq(s, 3, Len(s)), i + 1, 256 * acc + byte)

\* FromStr for TestOid
ParseOid(s) == FromStrLoop(s, 0, 0)

(***************************************************************************)
(* Reference names                                                         *)
(***************************************************************************)
HEAD_COMPONENT == "head"
LEAF_COMPONENT == "leaves"
DIT_REF_PART == "dit"
REMOTES_REF_BASE == <<"refs", "remotes">>

\* TestStore.remotes
Remotes == {"origin"}

\* remote::Name::ref_path
RemoteRefPath(r) == REMOTES_REF_BASE \o <<r>>

LocalPrefix == <<"refs", DIT_REF_PART>>
RemotePrefix(r) == RemoteRefPath(r) \o <<DIT_REF_PART>>

\* the path Issue::local_head and Issue::update_head format
LocalHeadPath(i) == LocalPrefix \o <<Fmt(i), HEAD_COMPONENT>>
\* the path Issue::local_refs formats
LocalRefsPath(i) == LocalPrefix \o <<Fmt(i)>>
\* the path Issue::add_leaf formats
LocalLeafPath(i, m) == LocalPrefix \o <<Fmt(i), LEAF_COMPONENT, Fmt(m)>>
\* the path Issue::remote_head and Issue::all_remote_heads format
RemoteHeadPath(r, i) == RemotePrefix(r) \o <<Fmt(i), HEAD_COMPONENT>>

\* Path::parent
Parent(p) == SubSeq(p, 1, Len(p) - 1)
\* Path::starts_with, component-wise
StartsWith(p, prefix) ==
    /\ Len(prefix) <= Len(p)
    /\ SubSeq(p, 1, Len(prefix)) = prefix

NoParts ==
    [ok |-> FALSE, abort |-> FALSE, prefix |-> <<>>, issue |-> NoOid,
     kind |-> "none", leaf |-> NoOid]
\* parts() does not return: parsing an id panicked
AbortedParts == [NoParts EXCEPT !.abort = TRUE]

\* the end of Reference::parts: the issue component and the prefix of a path
\* whose kind is known
IssueParts(q, kind, leaf) ==
    IF Len(q) = 0 THEN NoParts
    ELSE LET issue == ParseOid(q[Len(q)]) IN
         IF issue.status = "panic" THEN AbortedParts
         ELSE IF issue.status = "err" THEN NoParts
         ELSE [ok |-> TRUE, abort |-> FALSE, prefix |-> Parent(q),
               issue |-> issue.id, kind |-> kind, leaf |-> leaf]

\* Reference::parts
\* a path taken for a head whenever one of its components is "head"
PartsHeadAnywhere(p) ==
    IF \E k \in 1 .. Len(p) : p[k] = HEAD_COMPONENT
    THEN IssueParts(Parent(p), "head", NoOid)
    ELSE NoParts

Parts(p) ==
    IF Len(p) = 0 THEN NoParts
    ELSE IF p[Len(p)] = HEAD_COMPONENT
    THEN IssueParts(Parent(p), "head", NoOid)
    ELSE LET id == ParseOid(p[Len(p)])
             q == Parent(p) IN
         IF id.status = "panic" THEN AbortedParts
         ELSE IF id.status = "err" \/ Len(q) = 0 \/ q[Len(q)] # LEAF_COMPONENT
         THEN NoParts
         ELSE IssueParts(Parent(q), "leaf", id.id)

\* Reference::is_head
IsHead(p) == Parts(p).ok /\ Parts(p).kind = "head"
\* Reference::is_leaf
IsLeaf(p) == Parts(p).ok /\ Parts(p).kind = "leaf"

(***************************************************************************)
(* Object database (TestOdb)                                               *)
(***************************************************************************)
Commits == {o \in DOMAIN objects : objects[o].kind = "commit"}

\* Database::find_commit succeeds
IsCommit(o) == o \in DOMAIN objects /\ objects[o].kind = "commit"

\* Commit::parent_ids
ParentIds(o) == objects[o].parents

Range(s) == {s[k] : k \in 1 .. Len(s)}

\* TestOdb::next_oid
NextOid == id_counter + 1

\* the parent lists a caller may pass to commit: commits of the database
ParentChoices ==
    {ps \in UNION {[1 .. n -> Commits] : n \in 0 .. Cardinality(Commits)} :
        \A a, b \in 1 .. Len(ps) : a # b => ps[a] # ps[b]}

\* TestOdb::commit
OdbCommit(db, oid, parents) ==
    (oid :> [kind |-> "commit", parents |-> parents]) @@ db

(***************************************************************************)
(* Reference store (TestStore)                                             *)
(***************************************************************************)
\* a TestRef
Ref(n) == [kind |-> "ref", name |-> n, target |-> refs[n]]
ErrItem == [kind |-> "err", name |-> <<>>, target |-> NoOid]
IdItem(id) == [kind |-> "id", name |-> <<>>, target |-> id]
\* TestRef::from(name).with_target(target)
TestRef(name, target) == [kind |-> "ref", name |-> name, target |-> target]

\* TestStore::set_reference
\* a store that never replaces a reference it holds
SetReferenceInsertOnly(rs, name, target, overwrite) ==
    IF name \notin DOMAIN rs
    THEN [n \in DOMAIN rs \cup {name} |-> IF n = name THEN target ELSE rs[n]]
    ELSE rs

SetReference(rs, name, target, overwrite) ==
    IF overwrite \/ name \notin DOMAIN rs
    THEN [n \in DOMAIN rs \cup {name} |-> IF n = name THEN target ELSE rs[n]]
    ELSE rs

\* what TestStore::set_reference returns: Ok(new), whatever the store held
SetReferenceResult(rs, name, target, overwrite) == TestRef(name, target)

\* Repository::reference of git2 refuses to write a reference that exists
\* unless it is told to overwrite it
Git2Refuses(rs, name, overwrite) == ~overwrite /\ name \in DOMAIN rs

\* TestStore::references
References(prefix) == {n \in DOMAIN refs : StartsWith(n, prefix)}

\* the store has room for the reference, or holds it already
HasRoom(name) == name \in DOMAIN refs \/ Cardinality(DOMAIN refs) < MaxRefs

\* the leaves of every issue: the prefix of the issue is not applied
LocalLeavesOfAll(i) == {n \in References(LocalPrefix) : IsLeaf(n)}

\* Issue::local_refs followed by References::leaves
LocalLeaves(i) == {n \in References(LocalRefsPath(i)) : IsLeaf(n)}

\* Issue::all_remote_heads
AllRemoteHeads(i) == {RemoteHeadPath(r, i) : r \in Remotes} \cap DOMAIN refs

\* RepositoryExt::find_issue: an issue handle exists for an id with a head reference
IssueHandles ==
    {i \in Commits : LocalHeadPath(i) \in DOMAIN refs \/ AllRemoteHeads(i) # {}}

(***************************************************************************)
(* Traversal (TestTraversal)                                               *)
(***************************************************************************)
EmptyHeap == [o \in Oids |-> 0]

\* Traversible::traversal_builder
NewTraversal == [heads |-> EmptyHeap, ends |-> {}]

\* BinaryHeap::extend with a sequence of ids
RECURSIVE HeapExtend(_, _)
HeapExtend(h, ids) ==
    IF ids = <<>> THEN h
    ELSE HeapExtend([h EXCEPT ![Head(ids)] = @ + 1], Tail(ids))

\* TestTraversal::with_heads
WithHeads(t, ids) == [t EXCEPT !.heads = HeapExtend(t.heads, ids)]

\* TestTraversal::with_ends
WithEnds(t, ids) == [t EXCEPT !.ends = t.ends \cup Range(ids)]

HeapIds(h) == {o \in Oids : h[o] > 0}
HeapMax(h) == CHOOSE o \in HeapIds(h) : \A p \in HeapIds(h) : p <= o

\* the retain step of TestTraversal::next
\* a frontier that also forgets the id next below the one popped
RetainBelowNext(h, id) == [c \in Oids |-> IF c + 1 < id THEN h[c] ELSE 0]

\* a frontier that keeps every id it holds
RetainAll(h, id) == h

Retain(h, id) == [c \in Oids |-> IF c < id THEN h[c] ELSE 0]

\* a traversal that does not follow the parents
EnqueuedNothing(t, id) == <<>>

\* the parents TestTraversal::next enqueues
Enqueued(t, id) == SelectSeq(ParentIds(id), LAMBDA p : p \notin t.ends)

\* TestTraversal::next: the item yielded ("none" at the end) and the traversal left
\* a traversal that peeks at the frontier and waits on an id it cannot resolve
TraversalNextWaiting(t) ==
    IF HeapIds(t.heads) = {} THEN [item |-> "none", id |-> NoOid, t |-> t]
    ELSE LET id == HeapMax(t.heads)
             popped == [t.heads EXCEPT ![id] = @ - 1]
         IN  IF ~IsCommit(id)
             THEN [item |-> "retry", id |-> id, t |-> t]
             ELSE [item |-> "ok", id |-> id,
                   t |-> [t EXCEPT !.heads =
                            Retain(HeapExtend(popped, Enqueued(t, id)), id)]]

TraversalNext(t) ==
    IF HeapIds(t.heads) = {} THEN [item |-> "none", id |-> NoOid, t |-> t]
    ELSE LET id == HeapMax(t.heads)
             popped == [t.heads EXCEPT ![id] = @ - 1]
         IN  IF ~IsCommit(id)
             THEN [item |-> "err", id |-> id, t |-> [t EXCEPT !.heads = popped]]
             ELSE [item |-> "ok", id |-> id,
                   t |-> [t EXCEPT !.heads =
                            Retain(HeapExtend(popped, Enqueued(t, id)), id)]]

\* Issue::terminated_messages
TerminatedMessages(i) == WithEnds(NewTraversal, ParentIds(i))

(***************************************************************************)
(* Repository operations                                                   *)
(***************************************************************************)
Idle == pc = "idle"

\* req and out of a call on the repository: the call and what it returned,
\* held until the caller drops it
CallReq(op, i) == [op |-> op, issue |-> i, collect_heads |-> "Never",
                   consider_remote_refs |-> FALSE]

\* RepositoryExt::create_issue
CreateIssue(parents) ==
    /\ Idle
    /\ NextOid <= MaxOid
    /\ HasRoom(LocalHeadPath(NextOid))
    /\ objects' = OdbCommit(objects, NextOid, parents)
    /\ id_counter' = NextOid
    /\ refs' = SetReference(refs, LocalHeadPath(NextOid), NextOid, TRUE)
    /\ req' = CallReq("create_issue", NextOid)
    /\ out' = <<IdItem(NextOid)>>
    /\ pc' = "done"
    /\ UNCHANGED <<trav, candidates, stash, seeds>>

\* Issue::add_message, of an issue in a git2 repository: the commit is written,
\* then the leaf is created without overwriting
\* an add_message that also moves the head of the issue to the new message
AddMessageMovingHead(i, parents) ==
    /\ Idle
    /\ NextOid <= MaxOid
    /\ HasRoom(LocalLeafPath(i, NextOid))
    /\ objects' = OdbCommit(objects, NextOid, parents)
    /\ id_counter' = NextOid
    /\ req' = CallReq("add_message", i)
    /\ IF Git2Refuses(refs, LocalLeafPath(i, NextOid), FALSE)
       THEN /\ refs' = refs
            /\ out' = <<ErrItem>>
       ELSE /\ refs' = SetReference(
                          SetReference(refs, LocalLeafPath(i, NextOid), NextOid, FALSE),
                          LocalHeadPath(i), NextOid, TRUE)
            /\ out' = <<IdItem(NextOid)>>
    /\ pc' = "done"
    /\ UNCHANGED <<trav, candidates, stash, seeds>>

\* an add_message that writes the leaf it was refused to create
AddMessageOverwriting(i, parents) ==
    /\ Idle
    /\ NextOid <= MaxOid
    /\ HasRoom(LocalLeafPath(i, NextOid))
    /\ objects' = OdbCommit(objects, NextOid, parents)
    /\ id_counter' = NextOid
    /\ req' = CallReq("add_message", i)
    /\ refs' = SetReference(refs, LocalLeafPath(i, NextOid), NextOid, TRUE)
    /\ out' = IF Git2Refuses(refs, LocalLeafPath(i, NextOid), FALSE)
              THEN <<ErrItem>>
              ELSE <<IdItem(NextOid)>>
    /\ pc' = "done"
    /\ UNCHANGED <<trav, candidates, stash, seeds>>

AddMessage(i, parents) ==
    /\ Idle
    /\ NextOid <= MaxOid
    /\ HasRoom(LocalLeafPath(i, NextOid))
    /\ objects' = OdbCommit(objects, NextOid, parents)
    /\ id_counter' = NextOid
    /\ req' = CallReq("add_message", i)
    /\ IF Git2Refuses(refs, LocalLeafPath(i, NextOid), FALSE)
       THEN /\ refs' = refs
            /\ out' = <<ErrItem>>
       ELSE /\ refs' = SetReference(refs, LocalLeafPath(i, NextOid), NextOid, FALSE)
            /\ out' = <<IdItem(NextOid)>>
    /\ pc' = "done"
    /\ UNCHANGED <<trav, candidates, stash, seeds>>

\* Issue::add_leaf
AddLeaf(i, m) ==
    /\ Idle
    /\ HasRoom(LocalLeafPath(i, m))
    /\ refs' = SetReference(refs, LocalLeafPath(i, m), m, FALSE)
    /\ req' = CallReq("add_leaf", i)
    /\ out' = <<SetReferenceResult(refs, LocalLeafPath(i, m), m, FALSE)>>
    /\ UNCHANGED <<objects, id_counter>>
    /\ pc' = "done"
    /\ UNCHANGED <<trav, candidates, stash, seeds>>

\* Store::set_reference by a caller on the path of a leaf: the leaf named
\* after the message m is made to point to the message t
SetLeaf(i, m, t) ==
    /\ Idle
    /\ HasRoom(LocalLeafPath(i, m))
    /\ refs' = SetReference(refs, LocalLeafPath(i, m), t, TRUE)
    /\ req' = CallReq("set_reference", i)
    /\ out' = <<SetReferenceResult(refs, LocalLeafPath(i, m), t, TRUE)>>
    /\ UNCHANGED <<objects, id_counter>>
    /\ pc' = "done"
    /\ UNCHANGED <<trav, candidates, stash, seeds>>

\* Issue::update_head
UpdateHead(i, m, replace) ==
    /\ Idle
    /\ HasRoom(LocalHeadPath(i))
    /\ refs' = SetReference(refs, LocalHeadPath(i), m, replace)
    /\ req' = CallReq("update_head", i)
    /\ out' = <<SetReferenceResult(refs, LocalHeadPath(i), m, replace)>>
    /\ UNCHANGED <<objects, id_counter>>
    /\ pc' = "done"
    /\ UNCHANGED <<trav, candidates, stash, seeds>>

\* a local reference becomes symbolic: Reference::target returns None for it
MakeSymbolic(n) ==
    /\ Idle
    /\ refs[n] # NoOid
    /\ refs' = [refs EXCEPT ![n] = NoOid]
    /\ UNCHANGED <<objects, id_counter>>
    /\ UNCHANGED gcVars

\* a fetch with the issue's refspec writes the head of the issue on a remote
FetchHead(r, i, m) ==
    /\ Idle
    /\ HasRoom(RemoteHeadPath(r, i))
    /\ refs' = SetReference(refs, RemoteHeadPath(r, i), m, TRUE)
    /\ UNCHANGED <<objects, id_counter>>
    /\ UNCHANGED gcVars

(***************************************************************************)
(* Garbage collector: CollectableRefs::leaves                              *)
(***************************************************************************)
ReferenceCollectionSpec == {"Never", "BackedByRemoteHead"}

NoReq == [op |-> "none", issue |-> NoOid, collect_heads |-> "Never",
          consider_remote_refs |-> FALSE]

\* the leaves of an issue in the order the store lists them (by path)
RECURSIVE LeafSeq(_)
LeafSeq(names) ==
    IF names = {} THEN <<>>
    ELSE LET n == CHOOSE x \in names :
                    \A y \in names : Parts(x).leaf <= Parts(y).leaf
         IN  <<n>> \o LeafSeq(names \ {n})

\* leaves() with the NOTE of for_issue ignored: the leaf's own target is pushed
RECURSIVE LeavesLoopPushingTargets(_, _)
LeavesLoopPushingTargets(ls, acc) ==
    IF ls = <<>> \/ ~acc.ok THEN acc
    ELSE LET n == Head(ls)
             id == refs[n]
         IN  IF id = NoOid
             THEN LeavesLoopPushingTargets(Tail(ls), [acc EXCEPT !.dead = Append(@, Ref(n))])
             ELSE IF ~IsCommit(id)
             THEN [acc EXCEPT !.ok = FALSE]
             ELSE LeavesLoopPushingTargets(Tail(ls),
                    [acc EXCEPT
                        !.t = WithHeads(@, <<id>>),
                        !.cand = IF id \in DOMAIN @
                                 THEN [@ EXCEPT ![id] = Append(@, Ref(n))]
                                 ELSE (id :> <<Ref(n)>>) @@ @])

\* the loop over the local leaves in leaves(): the traversal, the candidates and
\* the dead leaves after the leaves in ls, or a failure
RECURSIVE LeavesLoop(_, _)
LeavesLoop(ls, acc) ==
    IF ls = <<>> \/ ~acc.ok THEN acc
    ELSE LET n == Head(ls)
             id == refs[n]
         IN  IF id = NoOid
             THEN LeavesLoop(Tail(ls), [acc EXCEPT !.dead = Append(@, Ref(n))])
             ELSE IF ~IsCommit(id)
             THEN [acc EXCEPT !.ok = FALSE]
             ELSE LeavesLoop(Tail(ls),
                    [acc EXCEPT
                        !.t = WithHeads(@, ParentIds(id)),
                        !.cand = IF id \in DOMAIN @
                                 THEN [@ EXCEPT ![id] = Append(@, Ref(n))]
                                 ELSE (id :> <<Ref(n)>>) @@ @])

\* the head treated like a leaf: its parents seeded instead of its target
HeadSeedParents(i) ==
    IF /\ LocalHeadPath(i) \in DOMAIN refs
       /\ refs[LocalHeadPath(i)] # NoOid
       /\ IsCommit(refs[LocalHeadPath(i)])
    THEN ParentIds(refs[LocalHeadPath(i)])
    ELSE <<>>

\* the head seeded into the walk of leaves()
HeadSeed(i) ==
    IF LocalHeadPath(i) \in DOMAIN refs /\ refs[LocalHeadPath(i)] # NoOid
    THEN <<refs[LocalHeadPath(i)]>>
    ELSE <<>>

\* the construction part of leaves()
LeavesBuild(i) ==
    IF ~IsCommit(i)
    THEN [ok |-> FALSE, t |-> NewTraversal, cand |-> <<>>, dead |-> <<>>]
    ELSE LeavesLoop(LeafSeq(LocalLeaves(i)),
            [ok |-> TRUE, t |-> WithHeads(TerminatedMessages(i), HeadSeed(i)),
             cand |-> <<>>, dead |-> <<>>])

\* CollectableRefs::leaves, up to the iterator it returns
LeavesStart(i, ch, crr) ==
    /\ Idle
    /\ req' = [op |-> "leaves", issue |-> i, collect_heads |-> ch,
               consider_remote_refs |-> crr]
    /\ LET b == LeavesBuild(i) IN
        /\ pc' = IF b.ok THEN "dead" ELSE "failed"
        /\ trav' = b.t
        /\ candidates' = b.cand
        /\ stash' = b.dead
        /\ seeds' = HeapIds(b.t.heads)
    /\ out' = <<>>
    /\ UNCHANGED repoVars

\* an iterator of leaves() that forgets the dead leaves
LeavesPullNoDead ==
    /\ pc = "dead"
    /\ out' = out
    /\ pc' = "walking"
    /\ UNCHANGED <<req, trav, candidates, stash, seeds>>
    /\ UNCHANGED repoVars

\* the iterator of leaves(): the dead leaves come first
LeavesPullDead ==
    /\ pc = "dead"
    /\ out' = out \o stash
    /\ pc' = "walking"
    /\ UNCHANGED <<req, trav, candidates, stash, seeds>>
    /\ UNCHANGED repoVars

\* an iterator of leaves() that ends its walk with candidates left
LeavesPullExitAtOnce ==
    /\ pc = "walking"
    /\ req.op = "leaves"
    /\ pc' = "done"
    /\ UNCHANGED <<trav, candidates, out>>
    /\ UNCHANGED <<req, stash, seeds>>
    /\ UNCHANGED repoVars

\* an iterator of leaves() that reports one leaf for a visited target
LeavesPullOnePerTarget ==
    /\ pc = "walking"
    /\ req.op = "leaves"
    /\ IF DOMAIN candidates = {}
       THEN /\ pc' = "done"
            /\ UNCHANGED <<trav, candidates, out>>
       ELSE LET n == TraversalNext(trav) IN
            /\ trav' = n.t
            /\ pc' = IF n.item = "none" THEN "done" ELSE "walking"
            /\ candidates' =
                 IF n.item = "ok" /\ n.id \in DOMAIN candidates
                 THEN [k \in DOMAIN candidates \ {n.id} |-> candidates[k]]
                 ELSE candidates
            /\ out' =
                 IF n.item = "ok" /\ n.id \in DOMAIN candidates
                 THEN Append(out, candidates[n.id][1])
                 ELSE IF n.item = "err" THEN Append(out, ErrItem)
                 ELSE out
    /\ UNCHANGED <<req, stash, seeds>>
    /\ UNCHANGED repoVars

\* the iterator of leaves(): one step of the map_while over the traversal
LeavesPull ==
    /\ pc = "walking"
    /\ req.op = "leaves"
    /\ IF DOMAIN candidates = {}
       THEN /\ pc' = "done"
            /\ UNCHANGED <<trav, candidates, out>>
       ELSE LET n == TraversalNext(trav) IN
            /\ trav' = n.t
            /\ pc' = IF n.item = "none" THEN "done" ELSE "walking"
            /\ candidates' =
                 IF n.item = "ok" /\ n.id \in DOMAIN candidates
                 THEN [k \in DOMAIN candidates \ {n.id} |-> candidates[k]]
                 ELSE candidates
            /\ out' =
                 IF n.item = "ok" /\ n.id \in DOMAIN candidates
                 THEN out \o candidates[n.id]
                 ELSE IF n.item = "err" THEN Append(out, ErrItem)
                 ELSE out
    /\ UNCHANGED <<req, stash, seeds>>
    /\ UNCHANGED repoVars

(***************************************************************************)
(* Garbage collector: CollectableRefs::head                                *)
(***************************************************************************)
\* Iterator::any over a built traversal: errors count as "not the target"
RECURSIVE WalkAny(_, _)
WalkAny(t, target) ==
    LET n == TraversalNext(t) IN
    IF n.item = "none" THEN FALSE
    ELSE IF n.item = "ok" /\ n.id = target THEN TRUE
    ELSE WalkAny(n.t, target)

\* the targets of the remote heads of an issue, in the order of the remotes
RECURSIVE TargetSeq(_)
TargetSeq(names) ==
    IF names = {} THEN <<>>
    ELSE LET n == CHOOSE x \in names : TRUE
         IN  (IF refs[n] = NoOid THEN <<>> ELSE <<refs[n]>>) \o TargetSeq(names \ {n})

\* head() walking the remote heads without the issue's boundary
HeadTraversalUnbounded(i) == WithHeads(NewTraversal, TargetSeq(AllRemoteHeads(i)))

\* the traversal head() builds: all remote heads, ended at the issue's boundary
HeadTraversal(i) == WithHeads(TerminatedMessages(i), TargetSeq(AllRemoteHeads(i)))

\* head() without the match on the policy
HeadResultIgnoringPolicy(i, ch) ==
    IF LocalHeadPath(i) \notin DOMAIN refs THEN [ok |-> TRUE, refs |-> <<>>]
    ELSE IF refs[LocalHeadPath(i)] = NoOid
    THEN [ok |-> TRUE, refs |-> <<Ref(LocalHeadPath(i))>>]
    ELSE IF ~IsCommit(i) THEN [ok |-> FALSE, refs |-> <<>>]
    ELSE [ok |-> TRUE,
          refs |-> IF WalkAny(HeadTraversal(i), refs[LocalHeadPath(i)])
                   THEN <<Ref(LocalHeadPath(i))>>
                   ELSE <<>>]

\* head() without the early return for a head that has no target
HeadResultWalkingAlways(i, ch) ==
    IF LocalHeadPath(i) \notin DOMAIN refs THEN [ok |-> TRUE, refs |-> <<>>]
    ELSE IF ch = "Never" THEN [ok |-> TRUE, refs |-> <<>>]
    ELSE IF ~IsCommit(i) THEN [ok |-> FALSE, refs |-> <<>>]
    ELSE [ok |-> TRUE,
          refs |-> IF WalkAny(HeadTraversal(i), refs[LocalHeadPath(i)])
                   THEN <<Ref(LocalHeadPath(i))>>
                   ELSE <<>>]

\* CollectableRefs::head: "err", or the references returned (none or the head)
HeadResult(i, ch) ==
    IF LocalHeadPath(i) \notin DOMAIN refs THEN [ok |-> TRUE, refs |-> <<>>]
    ELSE IF ch = "Never" THEN [ok |-> TRUE, refs |-> <<>>]
    ELSE IF refs[LocalHeadPath(i)] = NoOid
    THEN [ok |-> TRUE, refs |-> <<Ref(LocalHeadPath(i))>>]
    ELSE IF ~IsCommit(i) THEN [ok |-> FALSE, refs |-> <<>>]
    ELSE [ok |-> TRUE,
          refs |-> IF WalkAny(HeadTraversal(i), refs[LocalHeadPath(i)])
                   THEN <<Ref(LocalHeadPath(i))>>
                   ELSE <<>>]

\* a head() that deletes the head it reports
GcHeadDeleting(i, ch, crr) ==
    /\ Idle
    /\ req' = [op |-> "head", issue |-> i, collect_heads |-> ch,
               consider_remote_refs |-> crr]
    /\ LET r == HeadResult(i, ch) IN
        /\ pc' = IF r.ok THEN "done" ELSE "failed"
        /\ out' = r.refs
        /\ refs' = [n \in DOMAIN refs \ {r.refs[k].name : k \in 1 .. Len(r.refs)}
                        |-> refs[n]]
    /\ UNCHANGED <<trav, candidates, stash, seeds>>
    /\ UNCHANGED <<objects, id_counter>>

\* CollectableRefs::head
GcHead(i, ch, crr) ==
    /\ Idle
    /\ req' = [op |-> "head", issue |-> i, collect_heads |-> ch,
               consider_remote_refs |-> crr]
    /\ LET r == HeadResult(i, ch) IN
        /\ pc' = IF r.ok THEN "done" ELSE "failed"
        /\ out' = r.refs
    /\ UNCHANGED <<trav, candidates, stash, seeds>>
    /\ UNCHANGED repoVars

(***************************************************************************)
(* Garbage collector: CollectableRefs::for_issue, on a git2 revision walk  *)
(***************************************************************************)
\* the commits a git2 revision walk visits from the pushed ids: the pushed
\* commits and all their ancestors (for_issue hides nothing)
RECURSIVE RevwalkIds(_)
RevwalkIds(pushed) ==
    LET more == pushed \cup UNION {Range(ParentIds(c)) : c \in pushed}
    IN  IF more = pushed THEN pushed ELSE RevwalkIds(more)

\* Issue::all_remote_refs
AllRemoteRefs(i) ==
    UNION {References(RemotePrefix(r) \o <<Fmt(i)>>) : r \in Remotes}

\* Reference::peel to a commit succeeds
Peels(n) == refs[n] # NoOid /\ IsCommit(refs[n])

\* a for_issue that pushes the remote references whatever the configuration
ForIssuePushedRemotesToo(i, crr) ==
    (IF LocalHeadPath(i) \in DOMAIN refs THEN {refs[LocalHeadPath(i)]} ELSE {})
    \cup UNION {Range(ParentIds(refs[n])) : n \in LocalLeaves(i)}
    \cup {refs[n] : n \in AllRemoteRefs(i)}

\* the ids for_issue pushes to the revision walk it returns
ForIssuePushed(i, crr) ==
    (IF LocalHeadPath(i) \in DOMAIN refs THEN {refs[LocalHeadPath(i)]} ELSE {})
    \cup UNION {Range(ParentIds(refs[n])) : n \in LocalLeaves(i)}
    \cup (IF crr THEN {refs[n] : n \in AllRemoteRefs(i)} ELSE {})

\* the part of for_issue that decides about the local head
ForIssueHead(i, ch) ==
    IF /\ LocalHeadPath(i) \in DOMAIN refs
       /\ ch = "BackedByRemoteHead"
       /\ refs[LocalHeadPath(i)] \in RevwalkIds({refs[n] : n \in AllRemoteHeads(i)})
    THEN <<Ref(LocalHeadPath(i))>>
    ELSE <<>>

\* RefsReferringTo::next until the end: the watched references on the
\* commits of the walk, later commits first
RECURSIVE ReferringRefs(_, _)
ReferringRefs(ids, watched) ==
    IF ids = {} \/ watched = {} THEN <<>>
    ELSE LET id == CHOOSE x \in ids : \A y \in ids : y <= x
             here == {n \in watched : refs[n] = id}
             found == LeafSeq(here)
         IN  [k \in 1 .. Len(found) |-> Ref(found[k])]
             \o ReferringRefs(ids \ {id}, watched \ here)

\* a reference for_issue must resolve to a commit and cannot
ForIssueFails(i, ch, crr) ==
    \/ LocalHeadPath(i) \in DOMAIN refs /\ ~Peels(LocalHeadPath(i))
    \/ /\ LocalHeadPath(i) \in DOMAIN refs
       /\ ch = "BackedByRemoteHead"
       /\ \E n \in AllRemoteHeads(i) : ~Peels(n)
    \/ \E n \in LocalLeaves(i) : ~Peels(n)
    \/ crr /\ \E n \in AllRemoteRefs(i) : ~Peels(n)

\* CollectableRefs::for_issue and the collection of the iterator it returns
ForIssue(i, ch, crr) ==
    /\ Idle
    /\ req' = [op |-> "for_issue", issue |-> i, collect_heads |-> ch,
               consider_remote_refs |-> crr]
    /\ IF ForIssueFails(i, ch, crr)
       THEN /\ pc' = "failed"
            /\ out' = <<>>
       ELSE /\ pc' = "done"
            /\ out' = ForIssueHead(i, ch)
                      \o ReferringRefs(RevwalkIds(ForIssuePushed(i, crr)), LocalLeaves(i))
    /\ UNCHANGED <<trav, candidates, stash, seeds>>
    /\ UNCHANGED repoVars

\* the caller drops the iterator or the result
Drop ==
    /\ pc \in {"done", "failed"}
    /\ pc' = "idle"
    /\ req' = NoReq
    /\ trav' = NewTraversal
    /\ candidates' = <<>>
    /\ stash' = <<>>
    /\ seeds' = {}
    /\ out' = <<>>
    /\ UNCHANGED repoVars

(***************************************************************************)
(* Deleting references: ReferenceDeletingIter                              *)
(***************************************************************************)
\* the error next() yields for a reference that could not be deleted
DeleteErr(r) == [kind |-> "err", name |-> r.name, target |-> NoOid]

\* Reference::delete of git2 can succeed: the reference is in the store with
\* the target it had when it was looked up
Deletable(rs, r) == r.name \in DOMAIN rs /\ rs[r.name] = r.target

\* the store without the references at the positions K of the sequence rs
WithoutRefs(store, items, K) ==
    [n \in DOMAIN store \ {items[k].name : k \in K} |-> store[n]]

\* a caller collects the references a GC computation returned without an
\* error and wraps them: ReferenceDeletingIter::from
DeleteStart ==
    /\ pc = "done"
    /\ req.op \in {"leaves", "head", "for_issue"}
    /\ \A k \in 1 .. Len(out) : out[k].kind = "ref"
    /\ pc' = "deleting"
    /\ req' = [req EXCEPT !.op = "delete"]
    /\ stash' = out
    /\ out' = <<>>
    /\ UNCHANGED <<trav, candidates, seeds>>
    /\ UNCHANGED repoVars

\* the deletions one call of next() makes when the first deletion to fail is
\* the one at position f of the wrapped references, f = 0 when none fails
DeletedBy(f) == IF f = 0 THEN 1 .. Len(stash) ELSE 1 .. f - 1

\* a next() that gives up the references behind a failure
NextDroppingRest(f) ==
    /\ pc = "deleting"
    /\ f \in 0 .. Len(stash)
    /\ \A k \in DeletedBy(f) : Deletable(WithoutRefs(refs, stash, 1 .. k - 1), stash[k])
    /\ refs' = WithoutRefs(refs, stash, DeletedBy(f))
    /\ IF f = 0
       THEN /\ pc' = "done"
            /\ out' = out
       ELSE /\ pc' = "deleting"
            /\ out' = Append(out, DeleteErr(stash[f]))
    /\ stash' = <<>>
    /\ UNCHANGED <<req, trav, candidates, seeds>>
    /\ UNCHANGED <<objects, id_counter>>

\* ReferenceDeletingIter::next: the wrapped references are deleted in order
\* until a deletion fails, whose error is returned, or until none is left
DeleterNext(f) ==
    /\ pc = "deleting"
    /\ f \in 0 .. Len(stash)
    /\ \A k \in DeletedBy(f) : Deletable(WithoutRefs(refs, stash, 1 .. k - 1), stash[k])
    /\ refs' = WithoutRefs(refs, stash, DeletedBy(f))
    /\ IF f = 0
       THEN /\ pc' = "done"
            /\ out' = out
            /\ stash' = <<>>
       ELSE /\ pc' = "deleting"
            /\ out' = Append(out, DeleteErr(stash[f]))
            /\ stash' = SubSeq(stash, f + 1, Len(stash))
    /\ UNCHANGED <<req, trav, candidates, seeds>>
    /\ UNCHANGED <<objects, id_counter>>

\* a delete_ignoring() that stops at the first deletion that fails
DeleteUntilFailure(F) ==
    LET first == IF F = {} THEN Len(stash) + 1
                 ELSE CHOOSE k \in F : \A j \in F : k <= j
    IN
    /\ pc = "deleting"
    /\ F \subseteq 1 .. Len(stash)
    /\ \A k \in (1 .. Len(stash)) \ F : Deletable(refs, stash[k])
    /\ refs' = WithoutRefs(refs, stash, 1 .. first - 1)
    /\ pc' = "done"
    /\ stash' = <<>>
    /\ UNCHANGED <<req, trav, candidates, seeds, out>>
    /\ UNCHANGED <<objects, id_counter>>

\* ReferenceDeletingIter::delete_ignoring: next() is called until it returns
\* None, the deletions at the positions F fail and their errors are dropped
DeleteIgnoring(F) ==
    /\ pc = "deleting"
    /\ F \subseteq 1 .. Len(stash)
    /\ \A k \in (1 .. Len(stash)) \ F : Deletable(refs, stash[k])
    /\ refs' = WithoutRefs(refs, stash, (1 .. Len(stash)) \ F)
    /\ pc' = "done"
    /\ stash' = <<>>
    /\ UNCHANGED <<req, trav, candidates, seeds, out>>
    /\ UNCHANGED <<objects, id_counter>>

\* a sweep that deletes the first of the collected leaves only
SweepFirstOnly ==
    /\ pc = "done"
    /\ req.op = "leaves"
    /\ \A k \in 1 .. Len(out) : out[k].kind = "ref" /\ Deletable(refs, out[k])
    /\ refs' = WithoutRefs(refs, out, {k \in 1 .. Len(out) : k = 1})
    /\ req' = [req EXCEPT !.op = "swept"]
    /\ UNCHANGED <<pc, trav, candidates, stash, seeds, out>>
    /\ UNCHANGED <<objects, id_counter>>

\* a caller sweeps an issue: the leaves collected from leaves() are wrapped
\* and delete_ignoring() deletes them, no deletion failing
SweepLeaves ==
    /\ pc = "done"
    /\ req.op = "leaves"
    /\ \A k \in 1 .. Len(out) : out[k].kind = "ref" /\ Deletable(refs, out[k])
    /\ refs' = WithoutRefs(refs, out, 1 .. Len(out))
    /\ req' = [req EXCEPT !.op = "swept"]
    /\ UNCHANGED <<pc, trav, candidates, stash, seeds, out>>
    /\ UNCHANGED <<objects, id_counter>>

(***************************************************************************)
(* A traversal built and pulled by a caller (TraversalBuilder, Iterator)   *)
(***************************************************************************)
TraversalReq == [op |-> "traversal", issue |-> NoOid, collect_heads |-> "Never",
                 consider_remote_refs |-> FALSE]

\* the number of ids in a heap
RECURSIVE HeapSize(_, _)
HeapSize(h, ids) ==
    IF ids = {} THEN 0
    ELSE LET o == CHOOSE x \in ids : TRUE IN h[o] + HeapSize(h, ids \ {o})

\* Database::commit by a caller
WriteCommit(parents) ==
    /\ Idle
    /\ NextOid <= MaxOid
    /\ objects' = OdbCommit(objects, NextOid, parents)
    /\ id_counter' = NextOid
    /\ UNCHANGED refs
    /\ UNCHANGED gcVars

\* Traversible::traversal_builder
TraversalBuilder ==
    /\ Idle
    /\ pc' = "building"
    /\ req' = TraversalReq
    /\ trav' = NewTraversal
    /\ UNCHANGED <<candidates, stash, seeds, out>>
    /\ UNCHANGED repoVars

\* TraversalBuilder::with_head
WithHead(id) ==
    /\ pc = "building"
    /\ HeapSize(trav.heads, Oids) < MaxSeeds
    /\ trav' = WithHeads(trav, <<id>>)
    /\ seeds' = seeds \cup {id}
    /\ UNCHANGED <<pc, req, candidates, stash, out>>
    /\ UNCHANGED repoVars

\* TraversalBuilder::with_end
WithEnd(id) ==
    /\ pc = "building"
    /\ id \notin trav.ends
    /\ trav' = WithEnds(trav, <<id>>)
    /\ UNCHANGED <<pc, req, candidates, stash, seeds, out>>
    /\ UNCHANGED repoVars

\* TraversalBuilder::build
Build ==
    /\ pc = "building"
    /\ pc' = "walking"
    /\ UNCHANGED <<req, trav, candidates, stash, seeds, out>>
    /\ UNCHANGED repoVars

\* Iterator::next of the built traversal
PullNext ==
    /\ pc = "walking"
    /\ req.op = "traversal"
    /\ LET n == TraversalNext(trav) IN
        /\ trav' = n.t
        /\ pc' = IF n.item = "none" THEN "done" ELSE "walking"
        /\ out' = IF n.item = "ok" THEN Append(out, IdItem(n.id))
                  ELSE IF n.item = "err" THEN Append(out, ErrItem)
                  ELSE out
    /\ UNCHANGED <<req, candidates, stash, seeds>>
    /\ UNCHANGED repoVars

(***************************************************************************)
(* The messages of an issue: Issue::messages, Issue::messages_from         *)
(***************************************************************************)
\* a built traversal collected to its end
RECURSIVE WalkAll(_)
WalkAll(t) ==
    LET n == TraversalNext(t) IN
    IF n.item = "none" THEN <<>>
    ELSE <<IF n.item = "ok" THEN IdItem(n.id) ELSE ErrItem>> \o WalkAll(n.t)

\* Issue::all_refs: every local and remote reference of the issue
AllRefs(i) == References(LocalRefsPath(i)) \cup AllRemoteRefs(i)

\* the traversal Issue::messages builds: the targets of all references of the
\* issue as heads, ended at the parents of the initial message
MessagesTraversal(i) == WithHeads(TerminatedMessages(i), TargetSeq(AllRefs(i)))

\* the traversal Issue::messages_from builds
MessagesFromTraversal(i, m) == WithHeads(TerminatedMessages(i), <<m>>)

\* Issue::messages and the collection of the iterator it returns
Messages(i) ==
    /\ Idle
    /\ req' = [NoReq EXCEPT !.op = "messages", !.issue = i]
    /\ IF ~IsCommit(i)
       THEN /\ pc' = "failed"
            /\ out' = <<>>
            /\ seeds' = {}
       ELSE /\ pc' = "done"
            /\ out' = WalkAll(MessagesTraversal(i))
            /\ seeds' = HeapIds(MessagesTraversal(i).heads)
    /\ UNCHANGED <<trav, candidates, stash>>
    /\ UNCHANGED repoVars

\* Issue::messages_from and the collection of the iterator it returns
MessagesFrom(i, m) ==
    /\ Idle
    /\ req' = [NoReq EXCEPT !.op = "messages_from", !.issue = i]
    /\ IF ~IsCommit(i)
       THEN /\ pc' = "failed"
            /\ out' = <<>>
       ELSE /\ pc' = "done"
            /\ out' = WalkAll(MessagesFromTraversal(i, m))
    /\ seeds' = {m}
    /\ UNCHANGED <<trav, candidates, stash>>
    /\ UNCHANGED repoVars

(***************************************************************************)
(* The same walks in a git2 repository: git2::Revwalk as TraversalBuilder  *)
(***************************************************************************)
\* the ids of a set as a sequence, later ids first: the topological order of
\* a revision walk, every commit being written after its parents
RECURSIVE DescSeq(_)
DescSeq(S) ==
    IF S = {} THEN <<>>
    ELSE LET id == CHOOSE x \in S : \A y \in S : y <= x
         IN  <<id>> \o DescSeq(S \ {id})

\* the commits reached from a set along first parents only
RECURSIVE FirstParentIds(_)
FirstParentIds(S) ==
    LET more == S \cup {ParentIds(c)[1] : c \in {d \in S : ParentIds(d) # <<>>}}
    IN  IF more = S THEN S ELSE FirstParentIds(more)

\* a revision walk that follows every parent
RevwalkAllParents(heads, ends) == DescSeq(RevwalkIds(heads) \ RevwalkIds(ends))

\* Revwalk::build and the walk: simplify_first_parent, topological order;
\* hidden commits hide all their ancestors
RevwalkBuilt(heads, ends) == DescSeq(FirstParentIds(heads) \ RevwalkIds(ends))

\* the ids a walk yields, as items
IdItems(ids) == [k \in 1 .. Len(ids) |-> IdItem(ids[k])]

\* Issue::messages in a git2 repository: Revwalk::push fails for a target
\* that is no commit
MessagesGit2(i) ==
    LET heads == {refs[n] : n \in AllRefs(i)} \ {NoOid} IN
    /\ Idle
    /\ req' = [NoReq EXCEPT !.op = "messages_git2", !.issue = i]
    /\ IF ~IsCommit(i) \/ heads \ Commits # {}
       THEN /\ pc' = "failed"
            /\ out' = <<>>
       ELSE /\ pc' = "done"
            /\ out' = IdItems(RevwalkBuilt(heads, Range(ParentIds(i))))
    /\ seeds' = heads
    /\ UNCHANGED <<trav, candidates, stash>>
    /\ UNCHANGED repoVars

\* Issue::messages_from in a git2 repository
MessagesFromGit2(i, m) ==
    /\ Idle
    /\ req' = [NoReq EXCEPT !.op = "messages_from_git2", !.issue = i]
    /\ IF ~IsCommit(i) \/ ~IsCommit(m)
       THEN /\ pc' = "failed"
            /\ out' = <<>>
       ELSE /\ pc' = "done"
            /\ out' = IdItems(RevwalkBuilt({m}, Range(ParentIds(i))))
    /\ seeds' = {m}
    /\ UNCHANGED <<trav, candidates, stash>>
    /\ UNCHANGED repoVars

\* Traversible::first_parent_messages on the objects in memory
FirstParentMessages(m) ==
    /\ Idle
    /\ req' = [NoReq EXCEPT !.op = "first_parent_messages"]
    /\ pc' = "done"
    /\ out' = WalkAll(WithHeads(NewTraversal, <<m>>))
    /\ seeds' = {m}
    /\ UNCHANGED <<trav, candidates, stash>>
    /\ UNCHANGED repoVars

\* first_parent_messages in a git2 repository
FirstParentMessagesGit2(m) ==
    /\ Idle
    /\ req' = [NoReq EXCEPT !.op = "first_parent_messages_git2"]
    /\ IF ~IsCommit(m)
       THEN /\ pc' = "failed"
            /\ out' = <<>>
       ELSE /\ pc' = "done"
            /\ out' = IdItems(RevwalkBuilt({m}, {}))
    /\ seeds' = {m}
    /\ UNCHANGED <<trav, candidates, stash>>
    /\ UNCHANGED repoVars

\* the error issue_with_message returns when the walk finds no issue
NoTreeInitFound(m) == [kind |-> "err", name |-> <<"NoTreeInitFound">>, target |-> m]

\* the first id of a walk for which find_issue succeeds, NoOid without one
RECURSIVE FirstIssue(_)
FirstIssue(ids) ==
    IF ids = <<>> THEN NoOid
    ELSE IF Head(ids) \in IssueHandles THEN Head(ids)
    ELSE FirstIssue(Tail(ids))

\* an issue_with_message that looks for the issue on every path
IssueOnAnyPath(m) == FirstIssue(RevwalkAllParents({m}, {}))

\* the issue issue_with_message finds: the walk along the first parents
IssueOnChain(m) == FirstIssue(RevwalkBuilt({m}, {}))

\* RepositoryExt::issue_with_message, of a git2 repository
IssueWithMessage(m) ==
    /\ Idle
    /\ req' = [NoReq EXCEPT !.op = "issue_with_message"]
    /\ IF ~IsCommit(m)
       THEN /\ pc' = "failed"
            /\ out' = <<>>
       ELSE IF IssueOnChain(m) = NoOid
       THEN /\ pc' = "failed"
            /\ out' = <<NoTreeInitFound(m)>>
       ELSE /\ pc' = "done"
            /\ out' = <<IdItem(IssueOnChain(m))>>
    /\ seeds' = {m}
    /\ UNCHANGED <<trav, candidates, stash>>
    /\ UNCHANGED repoVars

(***************************************************************************)
(* RefsReferringTo: the watched references on the commits of a walk        *)
(***************************************************************************)
\* RefsReferringTo::new over a revision walk with the ids pushed
ReferringNew(pushed) ==
    [refs |-> <<>>, inner |-> DescSeq(RevwalkIds(pushed)), current |-> <<>>]

\* RefsReferringTo::watch_ref
WatchRef(r, n) ==
    [r EXCEPT !.refs =
        IF refs[n] \in DOMAIN r.refs
        THEN [r.refs EXCEPT ![refs[n]] = Append(@, n)]
        ELSE [id \in DOMAIN r.refs \cup {refs[n]} |->
                IF id = refs[n] THEN <<n>> ELSE r.refs[id]]]

\* RefsReferringTo::watch_refs
RECURSIVE WatchRefs(_, _)
WatchRefs(r, names) ==
    IF names = <<>> THEN r ELSE WatchRefs(WatchRef(r, Head(names)), Tail(names))

\* the position of the first id of the walk that has watched references, 0
\* when the walk has none
FirstWatched(r) ==
    IF \E k \in 1 .. Len(r.inner) : r.inner[k] \in DOMAIN r.refs
    THEN CHOOSE k \in 1 .. Len(r.inner) :
            /\ r.inner[k] \in DOMAIN r.refs
            /\ \A j \in 1 .. k - 1 : r.inner[j] \notin DOMAIN r.refs
    ELSE 0

\* a refill that keeps one reference of the commit it stops at
RefillKeepingOne(r) ==
    LET k == FirstWatched(r) IN
    [refs |-> [id \in DOMAIN r.refs \ {r.inner[k]} |-> r.refs[id]],
     inner |-> SubSeq(r.inner, k + 1, Len(r.inner)),
     current |-> <<r.refs[r.inner[k]][1]>>]

\* the refill of RefsReferringTo::next: the walk is pulled up to the first
\* commit with watched references, which become the current ones
Refill(r) ==
    LET k == FirstWatched(r) IN
    [refs |-> [id \in DOMAIN r.refs \ {r.inner[k]} |-> r.refs[id]],
     inner |-> SubSeq(r.inner, k + 1, Len(r.inner)),
     current |-> r.refs[r.inner[k]]]

\* RefsReferringTo::next: the name yielded (<<>> at the end) and the iterator left
RECURSIVE ReferringNext(_)
ReferringNext(r) ==
    IF r.current # <<>>
    THEN [name |-> r.current[Len(r.current)],
          r |-> [r EXCEPT !.current = SubSeq(@, 1, Len(@) - 1)]]
    ELSE IF DOMAIN r.refs = {} \/ FirstWatched(r) = 0
    THEN [name |-> <<>>, r |-> [r EXCEPT !.inner = IF DOMAIN r.refs = {} THEN @ ELSE <<>>]]
    ELSE ReferringNext(Refill(r))

\* the iterator collected to its end
RECURSIVE ReferringAll(_)
ReferringAll(r) ==
    LET n == ReferringNext(r) IN
    IF n.name = <<>> THEN <<>> ELSE <<Ref(n.name)>> \o ReferringAll(n.r)

\* a caller pushes ids onto a revision walk, wraps it, watches references and
\* collects the iterator; to watch a reference it must peel to an object
ReferredRefs(pushed, watch) ==
    /\ Idle
    /\ req' = [NoReq EXCEPT !.op = "referring"]
    /\ seeds' = pushed
    /\ stash' = [k \in 1 .. Len(watch) |-> Ref(watch[k])]
    /\ IF \E k \in 1 .. Len(watch) : refs[watch[k]] \notin DOMAIN objects
       THEN /\ pc' = "failed"
            /\ out' = <<>>
       ELSE /\ pc' = "done"
            /\ out' = ReferringAll(WatchRefs(ReferringNew(pushed), watch))
    /\ UNCHANGED <<trav, candidates>>
    /\ UNCHANGED repoVars

(***************************************************************************)
(* Calls of Reference::parts, is_head and is_leaf on a reference           *)
(***************************************************************************)
PartsItem(n) == [kind |-> "parts", name |-> n, parts |-> Parts(n)]
BoolItem(n, b) == [kind |-> "bool", name |-> n, value |-> b]

PartsReq(op) == [NoReq EXCEPT !.op = op]

\* a call that evaluates parts(): it returns, or the thread panics
Returning(n, item) ==
    /\ Idle
    /\ n \in DOMAIN refs
    /\ IF Parts(n).abort
       THEN /\ pc' = "aborted"
            /\ out' = <<>>
       ELSE /\ pc' = "done"
            /\ out' = <<item>>
    /\ UNCHANGED <<trav, candidates, stash, seeds>>
    /\ UNCHANGED repoVars

\* Reference::parts
CallParts(n) ==
    /\ req' = PartsReq("parts")
    /\ Returning(n, PartsItem(n))

\* Reference::is_head
CallIsHead(n) ==
    /\ req' = PartsReq("is_head")
    /\ Returning(n, BoolItem(n, IsHead(n)))

\* Reference::is_leaf
CallIsLeaf(n) ==
    /\ req' = PartsReq("is_leaf")
    /\ Returning(n, BoolItem(n, IsLeaf(n)))

(***************************************************************************)
(* Specification                                                           *)
(***************************************************************************)
Init ==
    /\ objects = <<>>
    /\ id_counter = 0
    /\ refs = <<>>
    /\ pc = "idle"
    /\ req = NoReq
    /\ trav = NewTraversal
    /\ candidates = <<>>
    /\ stash = <<>>
    /\ seeds = {}
    /\ out = <<>>

Next ==
    \/ \E ps \in ParentChoices : CreateIssue(ps)
    \/ \E i \in IssueHandles, ps \in ParentChoices : AddMessage(i, ps)
    \/ \E i \in IssueHandles, m \in Oids : AddLeaf(i, m)
    \/ \E i \in IssueHandles, m \in Oids, replace \in BOOLEAN : UpdateHead(i, m, replace)
    \/ \E n \in DOMAIN refs : StartsWith(n, LocalPrefix) /\ MakeSymbolic(n)
    \/ \E r \in Remotes, i \in Commits, m \in Commits : FetchHead(r, i, m)
    \/ \E i \in IssueHandles, ch \in ReferenceCollectionSpec, crr \in BOOLEAN :
            LeavesStart(i, ch, crr)
    \/ LeavesPullDead
    \/ LeavesPull
    \/ \E i \in IssueHandles, ch \in ReferenceCollectionSpec, crr \in BOOLEAN :
            GcHead(i, ch, crr)
    \/ \E i \in IssueHandles, ch \in ReferenceCollectionSpec, crr \in BOOLEAN :
            ForIssue(i, ch, crr)
    \/ \E i \in IssueHandles : Messages(i)
    \/ \E i \in IssueHandles, m \in Oids : MessagesFrom(i, m)
    \/ Drop

Spec == Init /\ [][Next]_vars

\* a caller that writes commits, then builds and pulls traversals over them
NextTraversal ==
    \/ \E ps \in ParentChoices : WriteCommit(ps)
    \/ TraversalBuilder
    \/ \E id \in Oids : WithHead(id)
    \/ \E id \in Oids : WithEnd(id)
    \/ Build
    \/ PullNext
    \/ Drop

SpecTraversal == Init /\ [][NextTraversal]_vars

\* the same caller, pulling from a built traversal until it ends
SpecTraversalLive == SpecTraversal /\ WF_vars(PullNext)

\* a caller that builds issues, computes what can be collected and deletes it
NextCollect ==
    \/ \E ps \in ParentChoices : CreateIssue(ps)
    \/ \E i \in IssueHandles, ps \in ParentChoices : AddMessage(i, ps)
    \/ \E i \in IssueHandles, m \in Commits : AddLeaf(i, m)
    \/ \E i \in IssueHandles, m \in Commits : UpdateHead(i, m, TRUE)
    \/ \E r \in Remotes, i \in IssueHandles : FetchHead(r, i, i)
    \/ \E i \in IssueHandles : LeavesStart(i, "Never", FALSE)
    \/ LeavesPullDead
    \/ LeavesPull
    \/ \E i \in IssueHandles : GcHead(i, "BackedByRemoteHead", FALSE)
    \/ \E i \in IssueHandles : ForIssue(i, "BackedByRemoteHead", FALSE)
    \/ \E i \in IssueHandles : Messages(i)
    \/ \E i \in IssueHandles : MessagesGit2(i)
    \/ DeleteStart
    \/ \E f \in 0 .. MaxRefs : DeleterNext(f)
    \/ \E F \in SUBSET (1 .. MaxRefs) : DeleteIgnoring(F)
    \/ Drop

SpecCollect == Init /\ [][NextCollect]_vars

\* a caller that builds issues and reads their messages, with the objects
\* in memory and in a git2 repository
NextMessages ==
    \/ \E ps \in ParentChoices : CreateIssue(ps)
    \/ \E i \in IssueHandles, ps \in ParentChoices : AddMessage(i, ps)
    \/ \E i \in IssueHandles, m \in Oids : AddLeaf(i, m)
    \/ \E i \in IssueHandles, m \in Commits : UpdateHead(i, m, TRUE)
    \/ \E r \in Remotes, i \in Commits, m \in Commits : FetchHead(r, i, m)
    \/ \E i \in IssueHandles : Messages(i)
    \/ \E i \in IssueHandles : MessagesGit2(i)
    \/ \E i \in IssueHandles, m \in Oids : MessagesFrom(i, m)
    \/ \E i \in IssueHandles, m \in Oids : MessagesFromGit2(i, m)
    \/ \E m \in Oids : FirstParentMessages(m)
    \/ \E m \in Oids : FirstParentMessagesGit2(m)
    \/ \E m \in Oids : IssueWithMessage(m)
    \/ Drop

SpecMessages == Init /\ [][NextMessages]_vars

\* the references a caller may watch: up to MaxWatch names, in any order, a
\* name possibly twice
WatchLists == UNION {[1 .. n -> DOMAIN refs] : n \in 0 .. MaxWatch}

\* a caller that builds issues and looks for references on the commits of a
\* revision walk
NextReferring ==
    \/ \E ps \in ParentChoices : CreateIssue(ps)
    \/ \E i \in IssueHandles, ps \in ParentChoices : AddMessage(i, ps)
    \/ \E i \in IssueHandles, m \in Oids : AddLeaf(i, m)
    \/ \E pushed \in SUBSET Commits, watch \in WatchLists : ReferredRefs(pushed, watch)
    \/ Drop

SpecReferring == Init /\ [][NextReferring]_vars

\* a caller that fetches the heads of remotes, whose objects may be missing,
\* and asks whether the local head can be collected
NextHead ==
    \/ \E ps \in ParentChoices : CreateIssue(ps)
    \/ \E i \in IssueHandles, ps \in ParentChoices : AddMessage(i, ps)
    \/ \E i \in IssueHandles, m \in Oids : UpdateHead(i, m, TRUE)
    \/ \E r \in Remotes, i \in Commits, m \in Oids : FetchHead(r, i, m)
    \/ \E i \in IssueHandles, ch \in ReferenceCollectionSpec : GcHead(i, ch, FALSE)
    \/ Drop

SpecHead == Init /\ [][NextHead]_vars

\* a caller that builds issues and sweeps their leaves
NextSweep ==
    \/ \E ps \in ParentChoices : CreateIssue(ps)
    \/ \E i \in IssueHandles, ps \in ParentChoices : AddMessage(i, ps)
    \/ \E i \in IssueHandles, m \in Commits : AddLeaf(i, m)
    \/ \E i \in IssueHandles, m \in Commits : UpdateHead(i, m, TRUE)
    \/ \E i \in IssueHandles, m \in Commits, t \in Commits : SetLeaf(i, m, t)
    \/ \E n \in DOMAIN refs : StartsWith(n, LocalPrefix) /\ MakeSymbolic(n)
    \/ \E i \in IssueHandles : LeavesStart(i, "Never", FALSE)
    \/ LeavesPullDead
    \/ LeavesPull
    \/ SweepLeaves
    \/ Drop

SpecSweep == Init /\ [][NextSweep]_vars

\* ids whose string form the paths given to parts() hold
(***************************************************************************)
(* Trees of the object database: TestOdb, TestTreeBuilder                  *)
(***************************************************************************)
Trees == {o \in DOMAIN objects : objects[o].kind = "tree"}

\* HashSet::insert of a tree: an object that has the id already stays
OdbTree(db, oid) ==
    IF oid \in DOMAIN db THEN db
    ELSE (oid :> [kind |-> "tree", parents |-> <<>>]) @@ db

\* TestOdb::empty_tree_builder: the builder locks the objects for writing and
\* takes the next id
EmptyTreeBuilder ==
    /\ Idle
    /\ NextOid <= MaxOid
    /\ id_counter' = NextOid
    /\ pc' = "tree"
    /\ req' = CallReq("empty_tree_builder", NextOid)
    /\ UNCHANGED <<objects, refs>>
    /\ UNCHANGED <<trav, candidates, stash, seeds, out>>

\* TestOdb::tree_builder: the builder takes the id of the tree it starts from
TreeBuilderFor(t) ==
    /\ Idle
    /\ t \in Trees
    /\ pc' = "tree"
    /\ req' = CallReq("tree_builder", t)
    /\ UNCHANGED repoVars
    /\ UNCHANGED <<trav, candidates, stash, seeds, out>>

\* TestTreeBuilder::write
TreeWrite ==
    /\ pc = "tree"
    /\ objects' = OdbTree(objects, req.issue)
    /\ out' = <<IdItem(req.issue)>>
    /\ pc' = "done"
    /\ UNCHANGED <<id_counter, refs>>
    /\ UNCHANGED <<req, trav, candidates, stash, seeds>>

\* the caller drops a tree builder it has not written
TreeDrop ==
    /\ pc = "tree"
    /\ pc' = "idle"
    /\ req' = NoReq
    /\ UNCHANGED repoVars
    /\ UNCHANGED <<trav, candidates, stash, seeds, out>>

\* a caller that creates trees and commits, then builds and pulls traversals
NextOdb ==
    \/ EmptyTreeBuilder
    \/ \E t \in Oids : TreeBuilderFor(t)
    \/ TreeWrite
    \/ TreeDrop
    \/ \E ps \in ParentChoices : WriteCommit(ps)
    \/ TraversalBuilder
    \/ \E id \in Oids : WithHead(id)
    \/ \E id \in Oids : WithEnd(id)
    \/ Build
    \/ PullNext
    \/ Drop

SpecOdb == Init /\ [][NextOdb]_vars

SampleIds == {1, 2, 10}
\* strings that are not the string form of an id: upper case, a sign,
\* a character too many, a character too few, no hexadecimal digits
OddIds == {"0A", "+1", "010", "0", "foo"}
PathComponents ==
    {HEAD_COMPONENT, LEAF_COMPONENT} \cup {Fmt(i) : i \in SampleIds} \cup OddIds
PathPrefixes ==
    {<<>>, LocalPrefix, <<HEAD_COMPONENT>>, <<Fmt(1), LEAF_COMPONENT>>}
        \cup {RemotePrefix(r) : r \in Remotes}
PathSuffixes == UNION {[1 .. k -> PathComponents] : k \in 1 .. MaxSuffix}
PathInputs == {pre \o suf : pre \in PathPrefixes, suf \in PathSuffixes}

\* a TestRef made from a path (TestRef::from): it has no target
InitParts ==
    /\ objects = <<>>
    /\ id_counter = 0
    /\ refs \in {n :> NoOid : n \in PathInputs}
    /\ pc = "idle"
    /\ req = NoReq
    /\ trav = NewTraversal
    /\ candidates = <<>>
    /\ stash = <<>>
    /\ seeds = {}
    /\ out = <<>>

\* a caller that asks a reference for its parts and its kind
NextParts ==
    \/ \E n \in DOMAIN refs : CallParts(n)
    \/ \E n \in DOMAIN refs : CallIsHead(n)
    \/ \E n \in DOMAIN refs : CallIsLeaf(n)
    \/ Drop

SpecParts == InitParts /\ [][NextParts]_vars

(***************************************************************************)
(* Vocabulary of the properties                                            *)
(***************************************************************************)
\* the ids a walk from the ids in S visits when it does not step onto an id of E
RECURSIVE History(_, _)
History(S, E) ==
    LET more == S \cup UNION {Range(ParentIds(c)) \ E : c \in S \cap Commits}
    IN  IF more = S THEN S ELSE History(more, E)

\* the boundary of an issue: the parents of its initial message
Boundary(i) == IF IsCommit(i) THEN Range(ParentIds(i)) ELSE {}

\* the strict ancestors of a commit within the boundary E
StrictAncestors(t, E) ==
    IF IsCommit(t) THEN History(Range(ParentIds(t)) \ E, E) ELSE {}

\* the local leaf references of an issue, and its local head reference
LeavesOf(i) == {n \in DOMAIN refs : \E m \in Oids : n = LocalLeafPath(i, m)}
HeadOf(i) == {n \in DOMAIN refs : n = LocalHeadPath(i)}

LiveLeavesOf(i) == {n \in LeavesOf(i) : refs[n] # NoOid}
DeadLeavesOf(i) == {n \in LeavesOf(i) : refs[n] = NoOid}
HeadTargets(i) == {refs[n] : n \in HeadOf(i)} \ {NoOid}
RemoteHeadTargets(i) ==
    {refs[n] : n \in {RemoteHeadPath(r, i) : r \in Remotes} \cap DOMAIN refs} \ {NoOid}

\* the tips of an issue other than the leaf n
OtherTips(i, n) == {refs[l] : l \in LiveLeavesOf(i) \ {n}} \cup HeadTargets(i)

\* what a pass has delivered so far
Reported == {out[k].name : k \in {j \in 1 .. Len(out) : out[j].kind = "ref"}}
Yielded == {out[k].target : k \in {j \in 1 .. Len(out) : out[j].kind = "id"}}
ErrorDelivered == \E k \in 1 .. Len(out) : out[k].kind = "err"

LeavesPass == req.op = "leaves" /\ pc \in {"dead", "walking", "done"}
LeavesDone == req.op = "leaves" /\ pc = "done"
HeadDone == req.op = "head" /\ pc = "done"
ForIssueDone == req.op = "for_issue" /\ pc = "done"

(***************************************************************************)
(* Leaves                                                                  *)
(***************************************************************************)
\* the issue B of the scenario: root b0, a reply b1, the head at b1, live
\* leaves on b0 and on b1 and no other leaf
IssueB(b0, b1) ==
    /\ IsCommit(b0) /\ IsCommit(b1)
    /\ ParentIds(b1) = <<b0>>
    /\ HeadTargets(b0) = {b1}
    /\ LeavesOf(b0) = {LocalLeafPath(b0, b0), LocalLeafPath(b0, b1)}
    /\ refs[LocalLeafPath(b0, b0)] = b0
    /\ refs[LocalLeafPath(b0, b1)] = b1

\* the ids leaves() seeds its walk with: the head's target itself and the
\* parents of the targets of the leaves
LeafWalkSeeds(i) ==
    HeadTargets(i)
    \cup UNION {Range(ParentIds(refs[n])) : n \in {l \in LiveLeavesOf(i) : IsCommit(refs[l])}}

\* the same ids as leaves() hands them to the builder
LeafSeedSeq(i) ==
    LET PS[k \in 0 .. MaxOid] ==
            IF k = 0 THEN <<>>
            ELSE PS[k - 1] \o (IF /\ LocalLeafPath(i, k) \in LiveLeavesOf(i)
                                  /\ IsCommit(refs[LocalLeafPath(i, k)])
                               THEN ParentIds(refs[LocalLeafPath(i, k)])
                               ELSE <<>>)
    IN  (IF HeadTargets(i) = {} THEN <<>> ELSE <<refs[LocalHeadPath(i)]>>) \o PS[MaxOid]

HeadAtLeaf(i, m) ==
    /\ IsCommit(i) /\ IsCommit(m)
    /\ ParentIds(m) = <<i>>
    /\ HeadTargets(i) = {m}
    /\ LeavesOf(i) = {LocalLeafPath(i, m)}
    /\ refs[LocalLeafPath(i, m)] = m
    /\ RemoteHeadTargets(i) = {}

\* C3: with the head updated to the reply m, the GC reports exactly the leaf
\* on m: leaves() and for_issue deliver that leaf alone, head() nothing.
C3_LeafAtHead ==
    \A m \in Oids :
        HeadAtLeaf(req.issue, m) =>
            /\ (LeavesDone \/ ForIssueDone) => out = <<Ref(LocalLeafPath(req.issue, m))>>
            /\ HeadDone => out = <<>>
            /\ pc # "failed"

C3_Witness ==
    /\ ForIssueDone
    /\ req.collect_heads = "BackedByRemoteHead"
    /\ \E m \in Oids : HeadAtLeaf(req.issue, m) /\ Reported = {LocalLeafPath(req.issue, m)}

(***************************************************************************)
(* Heads                                                                   *)
(***************************************************************************)
\* C4: under the policy Never the local head is never reported: head()
\* returns None and for_issue never yields the head, whatever the remote
\* heads, the leaves and the head's target are.
C4_NeverKeepsHead ==
    req.collect_heads = "Never" =>
        /\ req.op \in {"head", "for_issue", "leaves"} => Reported \cap HeadOf(req.issue) = {}
        /\ req.op = "head" => out = <<>> /\ pc # "failed"

\* head() under Never with a remote head at the local head's target
C4_Witness ==
    /\ HeadDone
    /\ req.collect_heads = "Never"
    /\ HeadTargets(req.issue) # {}
    /\ HeadTargets(req.issue) \subseteq RemoteHeadTargets(req.issue)

C6_HeadWithoutTarget ==
    (req.op = "head" /\ HeadOf(req.issue) # {} /\ HeadTargets(req.issue) = {}) =>
        /\ pc = "done"
        /\ req.collect_heads # "Never" => out = <<Ref(LocalHeadPath(req.issue))>>
        /\ req.collect_heads = "Never" => out = <<>>

C6_Witness ==
    /\ HeadDone
    /\ req.collect_heads = "BackedByRemoteHead"
    /\ HeadOf(req.issue) # {}
    /\ HeadTargets(req.issue) = {}
    /\ Reported = HeadOf(req.issue)

C8_Isolation ==
    req.op \in {"leaves", "head", "for_issue"} =>
        Reported \subseteq LeavesOf(req.issue) \cup HeadOf(req.issue)

\* a reference of another issue sits on the commit of a reported leaf
C8_Witness ==
    /\ LeavesDone
    /\ \E n \in Reported, o \in DOMAIN refs :
        /\ o \notin LeavesOf(req.issue) \cup HeadOf(req.issue)
        /\ StartsWith(o, LocalPrefix)
        /\ refs[o] = refs[n]
        /\ refs[n] # NoOid

\* C9 as stated: a pass of leaves() that meets a failure delivers no
\* reference; the caller never receives references together with an error.
C9_AllOrNothing ==
    req.op = "leaves" =>
        /\ pc = "failed" => out = <<>>
        /\ ErrorDelivered => Reported = {}

(***************************************************************************)
(* Traversals                                                              *)
(***************************************************************************)
\* C10 as stated: every id a built traversal yields is reachable from a head
\* by a path that does not pass through an end, and no end, even one that
\* was also added as a head, is ever yielded.
C10_NoEndYielded ==
    req.op = "traversal" =>
        /\ Yielded \subseteq History(seeds \ trav.ends, trav.ends)
        /\ Yielded \cap trav.ends = {}

\* how often a pulled traversal has yielded an id
TimesYielded(id) ==
    Cardinality({k \in 1 .. Len(out) : out[k].kind = "id" /\ out[k].target = id})

\* two messages b and c that both have a as a parent
SharedAncestor(a, b, c) ==
    /\ IsCommit(b) /\ IsCommit(c) /\ b # c
    /\ a \in Range(ParentIds(b)) \cap Range(ParentIds(c))

\* C11: a built traversal yields each id at most once, however many paths
\* reach it and however often it was added as a head; an ancestor shared by
\* two yielded messages is yielded exactly once by the exhausted traversal.
C11_YieldedOnce ==
    req.op = "traversal" =>
        /\ \A id \in Oids : TimesYielded(id) <= 1
        /\ pc = "done" =>
             \A a, b, c \in Oids :
                (SharedAncestor(a, b, c) /\ {b, c} \subseteq Yielded /\ a \notin trav.ends)
                => TimesYielded(a) = 1

\* an exhausted traversal over two paths that meet in an ancestor
C11_Witness ==
    /\ req.op = "traversal" /\ pc = "done"
    /\ \E a, b, c \in Oids :
        SharedAncestor(a, b, c) /\ {a, b, c} \subseteq Yielded

\* C12: pulling again and again from a built traversal reaches the end of
\* the sequence.
C12_Terminates ==
    (pc = "walking" /\ req.op = "traversal") ~> (pc = "done" /\ req.op = "traversal")

\* a traversal pulled to its end after several items
C12_Witness ==
    /\ req.op = "traversal" /\ pc = "done"
    /\ Len(out) >= 3
    /\ ErrorDelivered
    /\ Yielded # {}

(***************************************************************************)
(* Issue boundary                                                          *)
(***************************************************************************)
\* every ancestor of the initial message of an issue, the message excluded
BeyondBoundary(i) == History(Boundary(i), {})

\* the state of the test: issue r1 without parents, issue r2 whose initial
\* message has r1 as parent, one reply m to r2 with its leaf
StackedIssues(r1, r2, m) ==
    /\ IsCommit(r1) /\ IsCommit(r2) /\ IsCommit(m)
    /\ ParentIds(r1) = <<>> /\ ParentIds(r2) = <<r1>> /\ ParentIds(m) = <<r2>>
    /\ DOMAIN refs = {LocalHeadPath(r1), LocalHeadPath(r2), LocalLeafPath(r2, m)}
    /\ refs[LocalHeadPath(r1)] = r1
    /\ refs[LocalHeadPath(r2)] = r2
    /\ refs[LocalLeafPath(r2, m)] = m

\* C13 as stated: the walks built from the references of an issue end at the
\* parents of its initial message: messages() and messages_from() yield no
\* parent of the initial message and no further ancestor, and the GC reports
\* no leaf on such a message; in the state of the test issue2.messages()
\* yields the reply and the initial message, issue1.messages() its initial
\* message only.
C13_WalksEndAtBoundary ==
    /\ (req.op \in {"messages", "messages_from"} /\ pc = "done") =>
         Yielded \cap BeyondBoundary(req.issue) = {}
    /\ (LeavesPass \/ ForIssueDone) =>
         \A n \in Reported \cap LiveLeavesOf(req.issue) :
            refs[n] \notin BeyondBoundary(req.issue)
    /\ (req.op = "messages" /\ pc = "done") =>
         \A r1, r2, m \in Oids :
            StackedIssues(r1, r2, m) =>
                /\ req.issue = r2 => out = <<IdItem(m), IdItem(r2)>>
                /\ req.issue = r1 => out = <<IdItem(r1)>>

(***************************************************************************)
(* Reference paths                                                         *)
(***************************************************************************)
\* the reference a call of parts(), is_head() or is_leaf() was made on
Asked == CHOOSE n \in DOMAIN refs : TRUE
PartsCalled == req.op = "parts" /\ pc \in {"done", "aborted"}
PartsReturned == req.op = "parts" /\ pc = "done"

HeadParts(pre, i) ==
    [ok |-> TRUE, abort |-> FALSE, prefix |-> pre, issue |-> i,
     kind |-> "head", leaf |-> NoOid]
LeafParts(pre, i, m) ==
    [ok |-> TRUE, abort |-> FALSE, prefix |-> pre, issue |-> i,
     kind |-> "leaf", leaf |-> m]

\* C14: parts() of <prefix>/<issue-id>/head returns the prefix, the issue id
\* and kind Head, and parts() of <prefix>/<issue-id>/leaves/<message-id>
\* returns the prefix, the issue id and kind Leaf(message-id), whatever the
\* components of the prefix are.
C14_AcceptsGrammar ==
    PartsCalled =>
        \A pre \in PathPrefixes, i \in SampleIds :
            /\ Asked = pre \o <<Fmt(i), HEAD_COMPONENT>> =>
                   PartsReturned /\ out[1].parts = HeadParts(pre, i)
            /\ \A m \in SampleIds :
                   Asked = pre \o <<Fmt(i), LEAF_COMPONENT, Fmt(m)>> =>
                       PartsReturned /\ out[1].parts = LeafParts(pre, i, m)

\* a leaf path below a prefix that ends like a head path, parsed as a leaf
C14_Witness ==
    /\ PartsReturned
    /\ Asked = <<HEAD_COMPONENT, Fmt(2), LEAF_COMPONENT, Fmt(10)>>
    /\ out[1].parts = LeafParts(<<HEAD_COMPONENT>>, 2, 10)

\* the string form of an id: two lowercase hexadecimal digits for every byte
IsIdString(s) ==
    /\ Len(s) = 2 * OidBytes
    /\ \A k \in 1 .. Len(s) : \E d \in 1 .. 16 : Char(s, k) = Char(HexLower, d)

\* <prefix>/<issue-id>/head or <prefix>/<issue-id>/leaves/<message-id>
MatchesGrammar(p) ==
    \/ /\ Len(p) >= 2
       /\ p[Len(p)] = HEAD_COMPONENT
       /\ IsIdString(p[Len(p) - 1])
    \/ /\ Len(p) >= 3
       /\ IsIdString(p[Len(p)])
       /\ p[Len(p) - 1] = LEAF_COMPONENT
       /\ IsIdString(p[Len(p) - 2])

KindCalled == req.op \in {"is_head", "is_leaf"} /\ pc \in {"done", "aborted"}

\* C15 as stated: parts() of a path that does not match the grammar returns
\* None, it never fails and never aborts, and is_head() and is_leaf() of such
\* a path return false.
C15_RejectsMalformed ==
    ((PartsCalled \/ KindCalled) /\ ~MatchesGrammar(Asked)) =>
        /\ pc = "done"
        /\ PartsCalled => out[1].parts = NoParts
        /\ KindCalled => out[1].value = FALSE

\* the paths Issue formats from the parts of a reference
FormatParts(ps) ==
    ps.prefix \o <<Fmt(ps.issue)>> \o
        (IF ps.kind = "head" THEN <<HEAD_COMPONENT>>
         ELSE <<LEAF_COMPONENT, Fmt(ps.leaf)>>)

\* C16 as stated: a path parts() accepts is the path its parts format to, and
\* the paths of local heads, leaves and remote heads parse to the prefix, the
\* issue id and the kind they were formatted from.
C16_RoundTrip ==
    /\ (PartsReturned /\ out[1].parts.ok) => FormatParts(out[1].parts) = Asked
    /\ PartsCalled =>
         \A i \in SampleIds :
            /\ Asked = LocalHeadPath(i) =>
                   PartsReturned /\ out[1].parts = HeadParts(LocalPrefix, i)
            /\ \A m \in SampleIds :
                   Asked = LocalLeafPath(i, m) =>
                       PartsReturned /\ out[1].parts = LeafParts(LocalPrefix, i, m)
            /\ \A r \in Remotes :
                   Asked = RemoteHeadPath(r, i) =>
                       PartsReturned /\ out[1].parts = HeadParts(RemotePrefix(r), i)

(***************************************************************************)
(* Heads and leaves of an issue                                            *)
(***************************************************************************)
\* C17 as stated: update_head(message, false) on an issue that has a local
\* head returns an error and leaves the references as they are.
C17_ExistingHeadRefused ==
    [][\A i \in IssueHandles, m \in Oids :
          (UpdateHead(i, m, FALSE) /\ LocalHeadPath(i) \in DOMAIN refs) =>
              /\ out'[1].kind = "err"
              /\ refs' = refs]_vars

\* the local head of issue i in the store rs exists and targets m
HeadIs(rs, i, m) ==
    /\ LocalHeadPath(i) \in DOMAIN rs
    /\ rs[LocalHeadPath(i)] = m

\* C18: create_issue leaves the local head of the new issue on its initial
\* message, update_head(m, true) leaves the local head on m whatever it
\* targeted before, and every other operation of the library leaves every
\* local head as it is.
C18_HeadLifeCycle ==
    [][/\ \A ps \in ParentChoices :
            CreateIssue(ps) => HeadIs(refs', NextOid, NextOid)
       /\ \A i \in IssueHandles, m \in Oids :
            UpdateHead(i, m, TRUE) => HeadIs(refs', i, m)
       /\ (Drop \/ req'.op \notin {"none", "create_issue", "update_head"}) =>
            \A i \in Oids, m \in Oids \cup {NoOid} :
                HeadIs(refs, i, m) <=> HeadIs(refs', i, m)]_vars

\* update_head has returned and the head of an issue without remote heads,
\* which create_issue left on the initial message, is on a commit the initial
\* message is no ancestor of: an update that is no fast-forward
C18_Witness ==
    /\ req.op = "update_head" /\ pc = "done"
    /\ AllRemoteHeads(req.issue) = {}
    /\ \E m \in Commits \ {req.issue} :
          /\ req.issue \notin History({m}, {})
          /\ HeadIs(refs, req.issue, m)
          /\ out = <<TestRef(LocalHeadPath(req.issue), m)>>

\* the targets of the local references of an issue
LocalTargets(i) == {refs[n] : n \in References(LocalRefsPath(i))}

\* C19: an add_message that returns the new message has created one
\* reference, the leaf of the issue named after the new message and targeting
\* it; every reference there was before is still there with its target, the
\* head and the references of other issues among them. When the issue had
\* nothing but the head create_issue wrote, its leaves are then the one new
\* leaf and its local references target the initial and the new message.
C19_OneNewLeaf ==
    [][\A i \in IssueHandles, ps \in ParentChoices :
          (AddMessage(i, ps) /\ out'[1].kind = "id") =>
              /\ out'[1].target = NextOid
              /\ LocalLeafPath(i, NextOid) \notin DOMAIN refs
              /\ DOMAIN refs' = DOMAIN refs \cup {LocalLeafPath(i, NextOid)}
              /\ refs'[LocalLeafPath(i, NextOid)] = NextOid
              /\ \A n \in DOMAIN refs : refs'[n] = refs[n]
              /\ (References(LocalRefsPath(i)) = {LocalHeadPath(i)}
                        /\ HeadIs(refs, i, i)) =>
                    /\ LeavesOf(i)' = {LocalLeafPath(i, NextOid)}
                    /\ LocalTargets(i)' = {i, NextOid}]_vars

\* create_issue and one add_message, with another issue in the store
C19_Witness ==
    /\ req.op = "add_message" /\ pc = "done"
    /\ \E m \in Commits, j \in Commits \ {req.issue} :
          /\ out = <<IdItem(m)>>
          /\ DOMAIN refs = {LocalHeadPath(req.issue), LocalHeadPath(j),
                            LocalLeafPath(req.issue, m)}
          /\ HeadIs(refs, req.issue, req.issue)
          /\ HeadIs(refs, j, j)
          /\ refs[LocalLeafPath(req.issue, m)] = m
          /\ m = id_counter

\* the messages reachable from the references of an issue
ReachableFromRefs(i) == History({refs[n] : n \in AllRefs(i)} \ {NoOid}, {})
\* the messages Issue::messages yields
MessagesOf(i) ==
    LET walk == WalkAll(MessagesTraversal(i)) IN
    {walk[k].target : k \in {j \in 1 .. Len(walk) : walk[j].kind = "id"}}

\* add_message has returned an error: the message it wrote is id_counter
AddMessageFailed == req.op = "add_message" /\ pc = "done" /\ out = <<ErrItem>>

\* a failing add_message leaves the references as they are and the message
\* in the object database
FailureWritesMessageOnly ==
    [][\A i \in IssueHandles, ps \in ParentChoices :
          (AddMessage(i, ps) /\ out'[1].kind = "err") =>
              /\ refs' = refs
              /\ objects' = OdbCommit(objects, NextOid, ps)]_vars

ReachWithin(i, S) ==
    (History(S, Boundary(i)) \ BeyondBoundary(i)) \cap Commits

\* the targets of the local head and leaves of an issue, the references D
\* deleted
LocalTipsWithout(i, D) ==
    {refs[n] : n \in (HeadOf(i) \cup LeavesOf(i)) \ D} \ {NoOid}

\* C21: whichever of the leaves reported by leaves(issue) are deleted, the
\* messages reachable within the issue from its remaining local head and
\* leaves are the messages reachable from all of them.
C21_DeletionLosesNothing ==
    LeavesPass =>
        \A D \in SUBSET (Reported \cap LeavesOf(req.issue)) :
            ReachWithin(req.issue, LocalTipsWithout(req.issue, D))
                = ReachWithin(req.issue, LocalTipsWithout(req.issue, {}))

\* a reported leaf on a message the head does not reach: the message stays
\* reachable through a leaf that is kept
C21_Witness ==
    /\ LeavesDone
    /\ \E a \in Reported \cap LiveLeavesOf(req.issue) :
          /\ refs[a] \notin History(HeadTargets(req.issue), Boundary(req.issue))
          /\ \E c \in LiveLeavesOf(req.issue) \ Reported :
                refs[a] \in StrictAncestors(refs[c], Boundary(req.issue))

GcOps == {"leaves", "head", "for_issue"}

\* C22: a step of head(), leaves() or for_issue() leaves the reference store and
\* the object database as they are; a reference only disappears in a step of
\* the deleting iterator, where a reference that is not deleted keeps its
\* target; no step of the GC or of the deletion writes to the object database.
C22_GcOnlyEnumerates ==
    [][/\ req'.op \in GcOps => UNCHANGED <<objects, id_counter, refs>>
       /\ (\E n \in DOMAIN refs : n \notin DOMAIN refs') =>
             /\ req.op = "delete"
             /\ (\E f \in 0 .. MaxRefs : DeleterNext(f))
                    \/ (\E F \in SUBSET (1 .. MaxRefs) : DeleteIgnoring(F))
             /\ \A n \in DOMAIN refs' : refs'[n] = refs[n]
       /\ (req.op \in GcOps \cup {"delete"} \/ req'.op \in GcOps \cup {"delete"}) =>
             UNCHANGED <<objects, id_counter>>]_vars

\* for_issue has reported the head and a leaf, and both are in the store
C22_Witness ==
    /\ req.op = "for_issue" /\ pc = "done"
    /\ Len(out) = 2
    /\ \A k \in 1 .. Len(out) : out[k].kind = "ref" /\ Deletable(refs, out[k])
    /\ \E k \in 1 .. Len(out) : IsHead(out[k].name)

(***************************************************************************)
(* C23: the two ways to run a ReferenceDeletingIter                        *)
(***************************************************************************)
\* the names of the references at the positions K of the wrapped sequence
NamesAt(K) == {stash[k].name : k \in K}

\* next(): the references before the first failure are gone, the one that
\* failed and the ones behind it are untouched, the ones behind it are still
\* wrapped and can still be deleted, and the call yields the one error of the
\* failure or, without a failure, nothing
NextStopsAtFailure(f) ==
    /\ NamesAt(1 .. Len(stash)) \subseteq DOMAIN refs
    /\ DOMAIN refs' = DOMAIN refs \ NamesAt(DeletedBy(f))
    /\ \A n \in DOMAIN refs' : refs'[n] = refs[n]
    /\ IF f = 0
       THEN out' = out /\ stash' = <<>>
       ELSE /\ out' = Append(out, DeleteErr(stash[f]))
            /\ stash' = SubSeq(stash, f + 1, Len(stash))
            /\ \A k \in 1 .. Len(stash') : Deletable(refs', stash'[k])

\* delete_ignoring(): every reference whose deletion does not fail is gone,
\* also behind a failure, the others are untouched and nothing is yielded
IgnoringDeletesAll(F) ==
    /\ NamesAt(1 .. Len(stash)) \subseteq DOMAIN refs
    /\ DOMAIN refs' = DOMAIN refs \ NamesAt((1 .. Len(stash)) \ F)
    /\ \A n \in DOMAIN refs' : refs'[n] = refs[n]
    /\ out' = out
    /\ stash' = <<>>

\* C23: next() deletes the wrapped references in order and returns at the
\* first deletion that fails, with that one error, so that every earlier
\* reference is deleted and every later one is still there and still valid;
\* delete_ignoring() deletes every reference whose deletion succeeds, also
\* behind failures; a successful deletion yields nothing
C23_DeletionModes ==
    [][/\ \A f \in 0 .. MaxRefs : DeleterNext(f) => NextStopsAtFailure(f)
       /\ \A F \in SUBSET (1 .. MaxRefs) : DeleteIgnoring(F) => IgnoringDeletesAll(F)]_vars

\* next() has returned the error of a reference that is still in the store,
\* a reference behind it is still wrapped and valid, and the reference of
\* some message has been deleted
C23_Witness ==
    /\ pc = "deleting"
    /\ Len(out) = 1 /\ out[1].kind = "err" /\ out[1].name \in DOMAIN refs
    /\ Len(stash) = 1 /\ Deletable(refs, stash[1])
    /\ \E m \in Commits :
          /\ LocalHeadPath(m) \notin DOMAIN refs
          /\ \A i \in Commits : LocalLeafPath(i, m) \notin DOMAIN refs

(***************************************************************************)
(* C24: without consider_remote_refs only local references count           *)
(***************************************************************************)
\* a computation of the collector has returned, remote references were not
\* to be considered
LocalOnlyDone == req.op \in GcOps /\ pc = "done" /\ ~req.consider_remote_refs

\* what the local references of an issue cover: the head's target, the
\* parents of the leaves' targets and everything below them
LocalCover(i) ==
    History(HeadTargets(i)
            \cup UNION {Range(ParentIds(refs[n])) : n \in {l \in LiveLeavesOf(i) : IsCommit(refs[l])}},
            {})

\* what the references of the issue in the remote namespaces cover
RemoteCover(i) == History({refs[n] : n \in AllRemoteRefs(i)} \ {NoOid}, {})

\* C24: with consider_remote_refs = false every reported reference lies
\* under refs/dit/<issue-id>/, none lies in a remote namespace, and a
\* reported leaf with a target is covered by the local references alone
C24_LocalOnly ==
    LocalOnlyDone =>
        \A n \in Reported :
            /\ StartsWith(n, LocalRefsPath(req.issue))
            /\ \A r \in Remotes : ~StartsWith(n, RemotePrefix(r))
            /\ (n \in LiveLeavesOf(req.issue) => refs[n] \in LocalCover(req.issue))

\* for_issue has returned and reports a reference; a leaf whose target only
\* the history of a remote reference contains is kept
C24_Witness ==
    /\ ForIssueDone /\ ~req.consider_remote_refs
    /\ \E n \in LiveLeavesOf(req.issue) :
          /\ refs[n] \in RemoteCover(req.issue) \ LocalCover(req.issue)
          /\ n \notin Reported
    /\ Reported # {}

(***************************************************************************)
(* C25: Issue::messages yields all messages of the issue                   *)
(***************************************************************************)
MessagesDone == req.op \in {"messages", "messages_git2"} /\ pc = "done"

\* the targets of all references of the issue, local and remote
AllRefTargets(i) == {refs[n] : n \in AllRefs(i)} \ {NoOid}

\* C25: messages() yields exactly the messages reachable from the targets of
\* the issue's references, local and remote, down to and including the
\* initial message, and nothing else
C25_AllMessages ==
    MessagesDone =>
        /\ ~ErrorDelivered
        /\ Yielded = ReachWithin(req.issue, AllRefTargets(req.issue))

\* the same for the walk in memory alone, and for the git2 walk alone
C25_InMemory == req.op = "messages" => C25_AllMessages
C25_Git2 == req.op = "messages_git2" => C25_AllMessages

(***************************************************************************)
(* C26: the lineage of a message along first parents                       *)
(***************************************************************************)
\* the chain of first parents from m, m first, up to and including the
\* message `last` or, when it is not met, the root of the chain
RECURSIVE FirstParentChain(_, _)
FirstParentChain(m, last) ==
    IF m = last \/ ParentIds(m) = <<>> THEN <<m>>
    ELSE <<m>> \o FirstParentChain(ParentIds(m)[1], last)

\* the ids a finished walk has yielded, in order
YieldedSeq == [k \in 1 .. Len(out) |-> out[k].target]

\* the message a lineage walk started from
From == CHOOSE m \in seeds : TRUE

LineageDone ==
    /\ pc = "done"
    /\ req.op \in {"messages_from", "messages_from_git2",
                   "first_parent_messages", "first_parent_messages_git2"}
    /\ IsCommit(From)

\* C26: messages_from(m), for a message m whose chain of first parents meets
\* the initial message, yields that chain from m to the initial message and
\* nothing else; first_parent_messages(m) yields the whole chain
C26_FirstParentLineage ==
    LineageDone =>
        IF req.op \in {"messages_from", "messages_from_git2"}
        THEN req.issue \in Range(FirstParentChain(From, NoOid)) =>
                /\ ~ErrorDelivered
                /\ YieldedSeq = FirstParentChain(From, req.issue)
        ELSE /\ ~ErrorDelivered
             /\ YieldedSeq = FirstParentChain(From, NoOid)

C26_InMemory == req.op \in {"messages_from", "first_parent_messages"} => C26_FirstParentLineage
C26_Git2 == req.op \in {"messages_from_git2", "first_parent_messages_git2"} => C26_FirstParentLineage

(***************************************************************************)
(* C27: the issue a message belongs to                                     *)
(***************************************************************************)
\* a head reference exists for the id, locally or for a remote
HasHeadRef(c) ==
    \/ LocalHeadPath(c) \in DOMAIN refs
    \/ \E r \in Remotes : RemoteHeadPath(r, c) \in DOMAIN refs

\* the positions of the chain of first parents of m that carry a head
HeadsOnChain(m) ==
    {k \in 1 .. Len(FirstParentChain(m, NoOid)) : HasHeadRef(FirstParentChain(m, NoOid)[k])}

\* the nearest message with a head reference on the chain of m
NearestIssue(m) ==
    FirstParentChain(m, NoOid)[CHOOSE k \in HeadsOnChain(m) : \A j \in HeadsOnChain(m) : k <= j]

\* C27: issue_with_message(m) returns the issue of the nearest message with a
\* head reference on the chain of first parents of m, m included, and fails
\* with NoTreeInitFound when the chain has none
C27_NearestIssue ==
    (req.op = "issue_with_message" /\ IsCommit(From)) =>
        IF HeadsOnChain(From) = {}
        THEN pc = "failed" /\ out = <<NoTreeInitFound(From)>>
        ELSE pc = "done" /\ out = <<IdItem(NearestIssue(From))>>

\* the reply m to the issue r2 is looked up, the initial message of r2 has the
\* root of the issue r1 as parent: r2 is returned
C27_Witness ==
    /\ req.op = "issue_with_message" /\ pc = "done"
    /\ \E r1, r2, m \in Commits :
          /\ StackedIssues(r1, r2, m)
          /\ HasHeadRef(r1) /\ HasHeadRef(r2) /\ ~HasHeadRef(m)
          /\ From = m
          /\ out = <<IdItem(r2)>>

\* a message without an issue on its chain is looked up
C27_WitnessNone ==
    /\ req.op = "issue_with_message" /\ pc = "failed"
    /\ IsCommit(From)
    /\ out = <<NoTreeInitFound(From)>>

(***************************************************************************)
(* C28: what RefsReferringTo yields                                        *)
(***************************************************************************)
\* how often a name occurs in a sequence of references
Occurrences(items, n) == Cardinality({k \in 1 .. Len(items) : items[k].name = n})

ReferringDone == req.op = "referring" /\ pc = "done"

C28_WitnessUnvisited ==
    /\ ReferringDone
    /\ Len(out) = 1
    /\ \E k \in 1 .. Len(stash) : stash[k].target \notin RevwalkIds(seeds)

(***************************************************************************)
(* C29: the early exit of leaves()                                         *)
(***************************************************************************)
\* the names of the references in a sequence of items
RefNames(items) == {items[k].name : k \in {j \in 1 .. Len(items) : items[j].kind = "ref"}}

\* the leaves found by the walk of leaves() when it is pulled to its end,
\* whether candidates are left or not
RECURSIVE ExhaustiveLeaves(_, _)
ExhaustiveLeaves(t, cand) ==
    LET n == TraversalNext(t) IN
    IF n.item = "none" THEN {}
    ELSE IF n.item = "ok" /\ n.id \in DOMAIN cand
    THEN RefNames(cand[n.id])
         \cup ExhaustiveLeaves(n.t, [k \in DOMAIN cand \ {n.id} |-> cand[k]])
    ELSE ExhaustiveLeaves(n.t, cand)

\* C29: the references leaves() reports, its walk ending as soon as no
\* candidate is left, are the references the same walk reports when it is
\* run to exhaustion
C29_EarlyExitSameSet ==
    LeavesDone =>
        Reported = RefNames(LeavesBuild(req.issue).dead)
                   \cup ExhaustiveLeaves(LeavesBuild(req.issue).t, LeavesBuild(req.issue).cand)

\* leaves() has reported a leaf found on the walk and has ended with ids left
\* on the frontier, which the exhaustive walk goes on to visit
C29_Witness ==
    /\ LeavesDone
    /\ DOMAIN candidates = {}
    /\ HeapIds(trav.heads) # {}
    /\ Reported \cap LiveLeavesOf(req.issue) # {}

(***************************************************************************)
(* C30: an error ends the sequence of a traversal                          *)
(***************************************************************************)
\* C30: when an id on the frontier of a built traversal does not resolve to a
\* message, the error is yielded and the traversal yields no id after it
C30_ErrorEndsSequence ==
    req.op = "traversal" =>
        \A k \in 1 .. Len(out) :
            out[k].kind = "err" => \A j \in k + 1 .. Len(out) : out[j].kind # "id"

(***************************************************************************)
(* C31: boundaries that do not resolve                                     *)
(***************************************************************************)
\* C31: a traversal is only handed to the caller when every id added as a
\* head or as an end resolves to a message: with a head or an end that does
\* not, with_heads, with_ends or build fails and nothing can be pulled
C31_BoundariesResolve ==
    (req.op = "traversal" /\ pc \in {"walking", "done"}) =>
        seeds \cup trav.ends \subseteq Commits

(***************************************************************************)
(* C32: an error of the walk during the judgement of the head              *)
(***************************************************************************)
\* the walk `any` pulls yields an error before it yields the target
RECURSIVE ErrBefore(_, _)
ErrBefore(t, target) ==
    LET n == TraversalNext(t) IN
    IF n.item = "none" THEN FALSE
    ELSE IF n.item = "err" THEN TRUE
    ELSE IF n.id = target THEN FALSE
    ELSE ErrBefore(n.t, target)

\* head() has judged a head with a target under BackedByRemoteHead and the
\* walk over the remote heads has yielded an error
HeadWalkFailed ==
    /\ req.op = "head" /\ pc \in {"done", "failed"}
    /\ req.collect_heads = "BackedByRemoteHead"
    /\ HeadTargets(req.issue) # {}
    /\ IsCommit(req.issue)
    /\ ErrBefore(HeadTraversal(req.issue), refs[LocalHeadPath(req.issue)])

\* C32: when the walk over the remote heads yields an error, head() under
\* BackedByRemoteHead returns an error and no answer about the head
C32_WalkErrorAborts == HeadWalkFailed => pc = "failed"

(***************************************************************************)
(* C33: consider_remote_refs(true)                                         *)
(***************************************************************************)
\* for_issue() or leaves() has returned all it reports, remote references
\* were to be considered
RemoteAwareDone ==
    /\ req.op \in {"leaves", "for_issue"} /\ pc = "done"
    /\ req.consider_remote_refs

\* C33: with consider_remote_refs(true) a local leaf whose target lies in the
\* history of a remote reference of the issue is reported, by for_issue()
\* and by leaves()
C33_RemoteRefsCount ==
    RemoteAwareDone =>
        \A n \in LiveLeavesOf(req.issue) :
            refs[n] \in RemoteCover(req.issue) => n \in Reported

C33_ForIssue == req.op = "for_issue" => C33_RemoteRefsCount

(***************************************************************************)
(* C34: a tip is not reported for seeding the walk                         *)
(***************************************************************************)
\* C34: the walk of leaves() is seeded with the head's target and the parents
\* of the leaves' targets, with nothing else, and a leaf is reported only
\* when its target is reached from the head or lies below another leaf
C34_SeedsAreParents ==
    LeavesPass =>
        /\ seeds = LeafWalkSeeds(req.issue)
        /\ \A n \in Reported \cap LiveLeavesOf(req.issue) :
              \/ refs[n] \in History(HeadTargets(req.issue), {})
              \/ \E l \in LiveLeavesOf(req.issue) \ {n} :
                    refs[n] \in StrictAncestors(refs[l], {})

\* leaves() has ended: a leaf below another leaf is reported, the leaf on the
\* tip, which neither the head nor another leaf reaches, is kept
C34_Witness ==
    /\ LeavesDone
    /\ Reported \cap LiveLeavesOf(req.issue) # {}
    /\ \E n \in LiveLeavesOf(req.issue) \ Reported :
          /\ IsCommit(refs[n])
          /\ refs[n] \notin seeds
          /\ refs[n] \notin History(HeadTargets(req.issue), {})

(***************************************************************************)
(* C35: the order in which a traversal visits                              *)
(***************************************************************************)
\* the ids among the items of a sequence, in order
RECURSIVE IdsOf(_)
IdsOf(items) ==
    IF items = <<>> THEN <<>>
    ELSE (IF Head(items).kind = "id" THEN <<Head(items).target>> ELSE <<>>)
         \o IdsOf(Tail(items))

\* the sets of heads and ends given to the builder, added in ascending order
\* of the ids, the ends first
SortedBuild(heads, ends) ==
    LET asc(S) == [k \in 1 .. Cardinality(S) |->
                      CHOOSE x \in S : Cardinality({y \in S : y < x}) = k - 1]
    IN  WithHeads(WithEnds(NewTraversal, asc(ends)), asc(heads))

TraversalDone == req.op = "traversal" /\ pc = "done"

\* C35: the ids a traversal yields are strictly decreasing, and the sequence
\* is the one the traversal yields when the same heads and ends are added in
\* ascending order, whatever the order they were added in
C35_DecreasingAndOrderFree ==
    /\ req.op = "traversal" =>
          \A j, k \in 1 .. Len(IdsOf(out)) : j < k => IdsOf(out)[j] > IdsOf(out)[k]
    /\ TraversalDone => IdsOf(out) = IdsOf(WalkAll(SortedBuild(seeds, trav.ends)))

\* a traversal with two heads has been pulled to its end and has yielded three ids
C35_Witness ==
    /\ TraversalDone
    /\ Cardinality(seeds) = 2
    /\ Len(IdsOf(out)) = 3

(***************************************************************************)
(* C36: a second pass after the sweep                                      *)
(***************************************************************************)
\* what leaves() reports for an issue in the current state, its iterator
\* pulled to the end
LeavesReport(i) ==
    RefNames(LeavesBuild(i).dead)
    \cup ExhaustiveLeaves(LeavesBuild(i).t, LeavesBuild(i).cand)

\* the references leaves() reported have all been deleted
Swept == req.op = "swept" /\ pc = "done"

\* C36: after every reference reported by leaves(issue) has been deleted,
\* leaves(issue) reports no reference
C36_SecondPassEmpty == Swept => LeavesReport(req.issue) = {}

\* a reported leaf has been deleted, the head and a leaf above the deleted
\* one are left
C36_Witness ==
    /\ Swept
    /\ Len(out) = 1 /\ out[1].name \notin DOMAIN refs
    /\ HeadTargets(req.issue) # {}
    /\ \E n \in LiveLeavesOf(req.issue) : out[1].target \in StrictAncestors(refs[n], {})

(***************************************************************************)
(* C37: each leaf once, leaves on one target together                      *)
(***************************************************************************)
\* the positions of the output at which a reference is reported
ReportedAt(n) == {k \in 1 .. Len(out) : out[k].kind = "ref" /\ out[k].name = n}

\* C37: a pass of leaves() reports each leaf at most once, and leaves that
\* share a target are reported together: when one of them has been reported
\* all of them have, next to each other
C37_OncePerLeaf ==
    LeavesPass =>
        /\ \A n \in LeavesOf(req.issue) : Cardinality(ReportedAt(n)) <= 1
        /\ \A n, l \in LiveLeavesOf(req.issue) :
              (refs[n] = refs[l] /\ n \in Reported) =>
                 /\ l \in Reported
                 /\ \A j, k \in 1 .. Len(out) :
                       (j \in ReportedAt(n) /\ k \in ReportedAt(l)) =>
                          \A x \in 1 .. Len(out) :
                             ((j <= x /\ x <= k) \/ (k <= x /\ x <= j)) =>
                                (out[x].kind = "ref" /\ out[x].target = refs[n])

\* two leaves of an issue on one message have both been reported
C37_Witness ==
    /\ LeavesDone
    /\ \E n, l \in LiveLeavesOf(req.issue) :
          n # l /\ refs[n] = refs[l] /\ {n, l} \subseteq Reported

(***************************************************************************)
(* C38: for_issue against head() and leaves()                              *)
(***************************************************************************)
\* for_issue has returned its references for an issue without dead leaves,
\* remote references not considered
ForIssueLocal ==
    /\ ForIssueDone
    /\ ~req.consider_remote_refs
    /\ DeadLeavesOf(req.issue) = {}

\* what head() and leaves() report together under the policy of the request
HeadAndLeaves(i, ch) == RefNames(HeadResult(i, ch).refs) \cup LeavesReport(i)

\* C38: without dead leaves and without remote references considered, the
\* references for_issue yields are those head() and leaves() report together
\* under the same policy for heads
C38_EntryPointsAgree ==
    ForIssueLocal => Reported = HeadAndLeaves(req.issue, req.collect_heads)

(***************************************************************************)
(* C39: ids grow, the retain step loses no ancestor                        *)
(***************************************************************************)
\* C39: after any sequence of tree and commit creations the id the next
\* commit gets is greater than every id in the store, every commit has a
\* greater id than each of its parents, and a traversal pulled to its end has
\* yielded every commit its walk reaches from its heads: the retain step
\* dropped none of them
C39_IdsGrow ==
    /\ \A o \in DOMAIN objects : o < NextOid
    /\ \A c \in Commits : \A p \in Range(ParentIds(c)) : p < c
    /\ TraversalDone =>
          History(seeds, trav.ends) \cap Commits \subseteq Range(IdsOf(out))

\* a tree was written before the commits; a traversal from a commit and its
\* parent, which is enqueued twice, has yielded each of them once
C39_Witness ==
    /\ TraversalDone
    /\ Trees # {}
    /\ Cardinality(seeds) = 2
    /\ seeds \subseteq Commits
    /\ \E c \in seeds : Range(ParentIds(c)) \cap seeds # {}
    /\ Len(out) = 2

====
